---- MODULE Spec2Model ----
(***************************************************************************)
(* Weekly field-service planning pipeline (scripts/frequency.py,           *)
(* scripts/cronograma.py, scripts/solve.py).                               *)
(*                                                                         *)
(* Each stage is a batch command (main) that reads tables and writes       *)
(* tables.  A stage is modelled as one action from its input state to its  *)
(* output state; every stage has its own specification whose Init draws    *)
(* the input tables from bounded sets:                                     *)
(*   SpecFreq  - frequency.main with repasses (Frequency Engine)           *)
(*   SpecCron  - cronograma.main (Weekly Scheduler)                        *)
(*   SpecGroup - the grouping loop of solve.main (Daily Router, step 2.4)  *)
(*   SpecMatch - the agent allocation of solve.main (Agent Matcher, 5.1)   *)
(*                                                                         *)
(* Tables (pandas data frames) are sets of records when the row order is   *)
(* immaterial and sequences of records when the code depends on the order. *)
(* Identifiers rewritten by repasses are pairs <<base, suffix>> with       *)
(* suffix "", "_A" or "_B" (the code appends the suffix to the string).    *)
(* Times of day are seconds.  All tables are those of one branch (FILIAL). *)
(***************************************************************************)
EXTENDS Integers, Sequences, FiniteSets, TLC

VARIABLES
    \* ---- Frequency Engine (frequency.py) ----
    freq_pc,          \* "input" before main has run, "done" after
    patrimonios_in,   \* sheet 'patrimonios' of Dados de Input/Dados.xlsx
    linhas_in,        \* consumption joined with sheet 'insumos': one row per SKU line
    parceiros_in,     \* sheet 'parceiros' of Dados de Input/Dados.xlsx
    depara_in,        \* depara_point_id.parquet
    freq_params,      \* visitas_duplas, freq_flex, padronizacao_intra_patrimonio
    visitas_rep,      \* visitas_df after step 8 (per SKU line, with FREQ_BASEADO_EM_CONSUMO)
    patrimonios_out,  \* sheet 'patrimonios' of Dados Intermediarios/Dados.xlsx
    parceiros_out,    \* sheet 'parceiros' of Dados Intermediarios/Dados.xlsx
    depara_out,       \* depara_point_id_atualizado.parquet
    frequencias,      \* sheet 'Frequencias' (one row per asset)
    \* ---- Weekly Scheduler (cronograma.py) ----
    cron_pc,          \* "input" before main has run, "done" after, "KeyError" if it raised
    dias_semana,      \* cell D7 of the sheet 'Configuracoes' (n_p)
    freq_df,          \* sheet 'Frequencias' merged with DIAS_POR_SEMANA of 'patrimonios'
    dia_entrega,      \* column DIA_ENTREGA of the sheet 'parceiros', by partner
    cron_status,      \* result status of the MIP solve of the branch
    cronograma,       \* sheet 'Cronograma': one row per asset with its flagged days
    \* ---- Route Builder, grouping of assets (solve.py) ----
    grp_pc,           \* "loop" while the grouping loop runs, "done" once it has finished
    lotes_df,         \* one row per asset of a (partner, period), with its GROUP number
    group_num,        \* the counter the loop numbers new groups with
    max_time,         \* 'Tempo Max' of the branch, seconds
    \* ---- Agent Matcher (solve.py), one branch and supervisor ----
    match_pc,         \* "input" before the allocation has run, "done" after
    result_livros_df, \* one row per route (LIVRO) of the supervisor
    tempo_total_semana, \* weekly budget of an agent, hours
    x_aloc,           \* the pairs <<i, j>> with x[i][j] = 1: agent index i owns route j
    alocation_dict,   \* route -> number n of the agent 'ABASTECEDOR filial supervisor n'
    excedem_44h,      \* the count the diagnostic line prints
    \* ---- Route Builder, weekly-capacity loop (solve.py) ----
    retry_pc,         \* "loop" while the loop 'while not restricao_semanal' runs, "done" after
    rota_1_pra_1,     \* the mode: TRUE for 1-to-1, FALSE for normal
    tempo_total_semana_adj, \* the budget the routing capacity is computed from, hours
    percentil_deslocamento, \* the travel-time percentile
    tentativas,       \* passes of the loop made so far
    check_livros,     \* TEMPO_OPERACAO of every aggregate route (LIVRO_AGG) of the last pass
    \* ---- Route Builder, the loop over supervisors and periods (solve.py) ----
    router_pc,        \* "loop" inside the loops of l.652/655, "done", or "AttributeError"
    grouped_df,       \* the groups to route: FILIAL, PERIODO, SUPERVISOR, GROUP
    n_p_aux,          \* number of periods the inner loop goes through
    supervisor,       \* loop variable of l.652, position in the supervisors' order
    periodo,          \* loop variable of l.655
    result_df,        \* the visits routed so far: FILIAL, PERIODO, LIVRO, PARCEIRO, GROUP
    saida,            \* the lines written to the console and the error stream
    \* ---- Weekly Scheduler, the load of the days of one branch (cronograma.py) ----
    peak_pc,          \* "input" before the MIP of a branch is solved, "done" after
    peak_n_p,         \* n_p: number of operating days of the week (dias_semana)
    patr_freq,        \* how many assets of the branch have each frequency
    carga,            \* visits on every day 0..n_p-1 in the emitted schedule
    max_w,            \* the peak of the emitted schedule
    \* ---- Weekly Scheduler, one call of generate_visit_patterns (cronograma.py) ----
    gvp_pc,           \* "base" in the loop of l.69, "shift" in the loop of l.84, "done"
    gvp_n_p,          \* n_p: the argument dias_semana
    gvp_f,            \* f: loop variable of l.69 and of l.84
    gvp_current,      \* current, held as the numerator of a fraction of denominator f
    gvp_pattern,      \* pattern: the list built by the loop of l.75
    gvp_visit_pattern, \* visit_pattern: the sorted base list of every f done so far
    gvp_s,            \* s: loop variable of l.87
    gvp_unique,       \* unique_patterns of l.85
    gvp_result,       \* visit_patterns: the sorted list of tuples of every f done so far
    \* ---- Route Builder, the times and the modality of one route (solve.py) ----
    post_pc,          \* "routed" once the solver has returned the route, "done" after l.924
    post_rota,        \* the route: its stops in order, each a group of one partner
    tempo_entrada,    \* TEMPO_DE_ENTRADA of every partner, seconds
    duracao,          \* DURATION between the points of two different partners, seconds
    distancia,        \* DISTANCE between the points of two different partners, metres
    livro_periodo,    \* PERIODO of the route
    config_J9,        \* cell J9 of the configuration sheet, in hundredths
    escalas,          \* the catalog of scales: name -> seconds (l.416-420)
    result_livro,     \* the route's row of result_livros_df
    \* ---- Agent Matcher, the scale of the bundles (solve.py l.1185-1199) ----
    promo_pc,         \* "alocado" once abastecedor_dict is built, "done" after the loop
    promo_tmax,       \* 'Tempo Max Dia' of the branch, seconds
    promo_livros,     \* result_livros_df: ESCALA, HORAS_DIARIAS (tenths of hour), FTE by route
    abastecedor_dict, \* the bundles: the set of the sets of routes of every agent
    \* ---- Route Builder, one call of Lote.solve and the routes it gives (solve.py) ----
    lote_pc,          \* "montado" before lote.solve, "done" after, or "AttributeError"
    lote_modo_1p1,    \* rota_1_pra_1
    lote_periodo,     \* periodo of the subproblem (l.655)
    lote_parceiros,   \* parceiros_df as read: opening hours and TEMPO_DE_ENTRADA by partner
    lote_grupos,      \* lote_df: the groups, with partner, service time and scheduled day
    lote_duration,    \* DURATION between the points of two different partners, seconds
    lote_result,      \* result_dict, with the value of the Time dimension at every stop
    lote_emitidos,    \* the routes of result_df after l.759-894, with their PERIODO
    \* ---- Agent Matcher, 1-to-1 mode (solve.py l.730-733, l.811-825, l.1170-1183) ----
    um_pc,            \* "roteado" once the aggregate routes are solved, "done" after l.1183
    livros_agg,       \* the aggregate routes: branch, supervisor, number, days with visits
    depara_livro,     \* LIVRO (daily sub-route) -> LIVRO_AGG
    um_alocation      \* alocation_dict: LIVRO -> ABASTECEDOR

freqVars == <<freq_pc, patrimonios_in, linhas_in, parceiros_in, depara_in,
              freq_params, visitas_rep, patrimonios_out, parceiros_out,
              depara_out, frequencias>>

cronVars == <<cron_pc, dias_semana, freq_df, dia_entrega, cron_status, cronograma>>

grpVars == <<grp_pc, lotes_df, group_num, max_time>>

matchVars == <<match_pc, result_livros_df, tempo_total_semana, x_aloc, alocation_dict,
               excedem_44h>>

retryVars == <<retry_pc, rota_1_pra_1, tempo_total_semana_adj, percentil_deslocamento,
               tentativas, check_livros>>

routerVars == <<router_pc, grouped_df, n_p_aux, supervisor, periodo, result_df, saida>>

peakVars == <<peak_pc, peak_n_p, patr_freq, carga, max_w>>

gvpVars == <<gvp_pc, gvp_n_p, gvp_f, gvp_current, gvp_pattern, gvp_visit_pattern, gvp_s,
             gvp_unique, gvp_result>>

postVars == <<post_pc, post_rota, tempo_entrada, duracao, distancia, livro_periodo, config_J9,
              escalas, result_livro>>

promoVars == <<promo_pc, promo_tmax, promo_livros, abastecedor_dict>>

loteVars == <<lote_pc, lote_modo_1p1, lote_periodo, lote_parceiros, lote_grupos,
              lote_duration, lote_result, lote_emitidos>>

umVars == <<um_pc, livros_agg, depara_livro, um_alocation>>

vars == <<freqVars, cronVars, grpVars, matchVars, retryVars, routerVars, peakVars, gvpVars, postVars,
         promoVars,
         loteVars,
         umVars>>

-----------------------------------------------------------------------------
(* Generic helpers *)

Max2(a, b) == IF a >= b THEN a ELSE b
Min2(a, b) == IF a <= b THEN a ELSE b

\* np.ceil(a / b) for a >= 0, b > 0
CeilDiv(a, b) == (a + b - 1) \div b

\* max of a non-empty finite set of integers (groupby(...).max())
SetMax(S) == CHOOSE m \in S : \A x \in S : x <= m

\* identifier with suffix: the code builds base + '_A' / base + '_B'
Id(base) == <<base, "">>
AddSuffix(id, suf) == <<id[1], id[2] \o suf>>

-----------------------------------------------------------------------------
(* Input domains of the Frequency Engine *)

PartnerNames == {"p1", "p2"}

\* most SKU lines an asset carries in the inputs
MaxLinhas == 2

\* DIAS_POR_SEMANA of an asset
DiasPorSemanaValues == {5, 6}

-----------------------------------------------------------------------------
(* frequency.py: pure steps *)

\* np.ceil(CONSUMO_SEMANAL / (CAPACIDADE * (1 - NIVEL_REPOSICAO))), level in percent
FreqBaseadoEmConsumo(w, cap, nivel) == CeilDiv(w * 100, cap * (100 - nivel))

\* FREQ_BASEADO_EM_CONSUMO > DIAS_POR_SEMANA * 1.5
ExcedeFator(fc, dpw) == 2 * fc > 3 * dpw

\* row selection of repasses (idx_repasse); main always passes allowed_patrimonios
IdxRepasse(row, allowed) ==
    /\ ExcedeFator(row.FREQ_BASEADO_EM_CONSUMO, row.DIAS_POR_SEMANA)
    /\ row.PATRIMONIO \in allowed

\* variant of RestanteB that forgets to take out what half A already covers
RestanteB_SemDesconto(fc, dpw) == fc

\* the consumption frequency left to half B
RestanteB(fc, dpw) == fc - dpw

\* gap actually applied between the windows of _A and _B
GapAplicado(dur, gap_des) ==
    IF dur <= gap_des + 60 THEN Max2(0, dur - 60) ELSE gap_des

\* mid_s = start_s + (dur_s - gap_aplicado) / 2
MidS(start, dur, gap) == start + ((dur - gap) \div 2)

\* FIM_FUNCIONAMENTO of the synthetic partner _A
FimA(start, end, gap_des) ==
    LET dur == end - start
        gap == GapAplicado(dur, gap_des)
    IN  MidS(start, dur, gap) - gap

\* INICIO_FUNCIONAMENTO of the synthetic partner _B
InicioB(start, end, gap_des) ==
    LET dur == end - start
        gap == GapAplicado(dur, gap_des)
    IN  MidS(start, dur, gap) + gap

\* default of the parameter gap_min_hours of repasses, in seconds
GapMinDefault == 3 * 3600

\* repasses(visitas_df, patrimonios_df, parceiros_df, depara_point_id, allowed, gap)
\* returns the four rewritten tables
Repasses(visitas, patrimonios, parceiros, depara, allowed, gap_des) ==
    LET idx == {r \in visitas : IdxRepasse(r, allowed)}
        patrimonios_repasse == {r.PATRIMONIO : r \in idx}
        parceiros_repasse == {r.PARCEIRO : r \in idx}
        \* 2) visitas
        visitas_A == {[r EXCEPT !.PARCEIRO = AddSuffix(r.PARCEIRO, "_A"),
                                !.PATRIMONIO = AddSuffix(r.PATRIMONIO, "_A"),
                                !.FREQ_BASEADO_EM_CONSUMO = r.DIAS_POR_SEMANA] : r \in idx}
        visitas_B == {[r EXCEPT !.PARCEIRO = AddSuffix(r.PARCEIRO, "_B"),
                                !.PATRIMONIO = AddSuffix(r.PATRIMONIO, "_B"),
                                !.FREQ_BASEADO_EM_CONSUMO =
                                    RestanteB(r.FREQ_BASEADO_EM_CONSUMO, r.DIAS_POR_SEMANA)] : r \in idx}
        \* 3) patrimonios
        idx_pat == {r \in patrimonios : r.PATRIMONIO \in patrimonios_repasse}
        halved == {[r EXCEPT !.FREQUENCIA_SEMANAL_MINIMA = CeilDiv(r.FREQUENCIA_SEMANAL_MINIMA, 2),
                             !.APLICA_REPASSE_BOOL = TRUE] : r \in idx_pat}
        pat_A == {[r EXCEPT !.PATRIMONIO = AddSuffix(r.PATRIMONIO, "_A"),
                            !.PARCEIRO = AddSuffix(r.PARCEIRO, "_A")] : r \in halved}
        pat_B == {[r EXCEPT !.PATRIMONIO = AddSuffix(r.PATRIMONIO, "_B"),
                            !.PARCEIRO = AddSuffix(r.PARCEIRO, "_B")] : r \in halved}
        patrimonios2 == (patrimonios \ idx_pat) \cup pat_A \cup pat_B
        parceiros_finais == {r.PARCEIRO : r \in patrimonios2}
        \* 4) parceiros
        parceiros_base == {r \in parceiros : r.PARCEIRO \in parceiros_repasse}
        parceiros_A == {[r EXCEPT !.PARCEIRO = AddSuffix(r.PARCEIRO, "_A"),
                                  !.FIM_FUNCIONAMENTO =
                                      FimA(r.INICIO_FUNCIONAMENTO, r.FIM_FUNCIONAMENTO, gap_des)]
                        : r \in parceiros_base}
        parceiros_B == {[r EXCEPT !.PARCEIRO = AddSuffix(r.PARCEIRO, "_B"),
                                  !.INICIO_FUNCIONAMENTO =
                                      InicioB(r.INICIO_FUNCIONAMENTO, r.FIM_FUNCIONAMENTO, gap_des)]
                        : r \in parceiros_base}
        parceiros2 == {r \in (parceiros \ parceiros_base) \cup parceiros_A \cup parceiros_B
                         : r.PARCEIRO \in parceiros_finais}
        \* 5) depara_point_id
        idx_depara == {r \in depara : r.PARCEIRO \in parceiros_repasse}
        depara_A == {[r EXCEPT !.PARCEIRO = AddSuffix(r.PARCEIRO, "_A")] : r \in idx_depara}
        depara_B == {[r EXCEPT !.PARCEIRO = AddSuffix(r.PARCEIRO, "_B")] : r \in idx_depara}
        depara2 == {r \in depara \cup depara_A \cup depara_B : r.PARCEIRO \in parceiros_finais}
    IN  IF idx = {}
        THEN [visitas |-> visitas, patrimonios |-> patrimonios,
              parceiros |-> parceiros, depara |-> depara]
        ELSE [visitas |-> (visitas \ idx) \cup visitas_A \cup visitas_B,
              patrimonios |-> patrimonios2,
              parceiros |-> parceiros2,
              depara |-> depara2]

\* step 9: np.minimum(FREQ_BASEADO_EM_CONSUMO, np.minimum(DIAS_POR_SEMANA, FREQUENCIA_ATUAL))
FrequenciaReposicao(fc, dpw, fcur) == Min2(fc, Min2(dpw, fcur))

\* step 11: floor raised to FREQUENCIA_ATUAL - freq_flex when freq_flex is supplied
MinimaFlex(fmin, fcur, flex) ==
    IF flex = {} THEN fmin
    ELSE Max2(fmin, fcur - (CHOOSE k \in flex : TRUE))

\* variant of FrequenciaFinal that ignores the floor
FrequenciaFinal_SemPiso(fmin, fr) == fr

\* variant of FrequenciaFinal that ignores the reposition frequency
FrequenciaFinal_SoPiso(fmin, fr) == fmin

\* step 12: FREQUENCIA = np.maximum(FREQUENCIA_SEMANAL_MINIMA, FREQUENCIA_REPOSICAO)
FrequenciaFinal(fmin, fr) == Max2(fmin, fr)

\* steps 6-7b: one visitas_df row per SKU line of an asset of the sheet 'patrimonios'
VisitasBase(linhas, patrimonios) ==
    { [PARCEIRO |-> l.PARCEIRO, PATRIMONIO |-> l.PATRIMONIO, INSUMO |-> l.INSUMO,
       DIAS_POR_SEMANA |-> p.DIAS_POR_SEMANA, FREQUENCIA_ATUAL |-> p.FREQUENCIA_ATUAL,
       FREQ_BASEADO_EM_CONSUMO |->
           FreqBaseadoEmConsumo(l.CONSUMO_SEMANAL, l.CAPACIDADE, l.NIVEL_REPOSICAO)]
      : <<l, p>> \in {lp \in linhas \X patrimonios :
                        /\ lp[1].PARCEIRO = lp[2].PARCEIRO
                        /\ lp[1].PATRIMONIO = lp[2].PATRIMONIO} }

\* steps 9-12: one row of the sheet per row of patrimonios_df (left merge, fillna(0))
FrequenciasSemPadronizacao(visitas, patrimonios, flex) ==
    { LET lines == {v \in visitas : v.PARCEIRO = p.PARCEIRO /\ v.PATRIMONIO = p.PATRIMONIO}
          fr == IF lines = {} THEN 0
                ELSE SetMax({FrequenciaReposicao(v.FREQ_BASEADO_EM_CONSUMO,
                                                 v.DIAS_POR_SEMANA, v.FREQUENCIA_ATUAL) : v \in lines})
          fmin == MinimaFlex(p.FREQUENCIA_SEMANAL_MINIMA, p.FREQUENCIA_ATUAL, flex)
      IN  [PARCEIRO |-> p.PARCEIRO, PATRIMONIO |-> p.PATRIMONIO,
           FREQUENCIA_ATUAL |-> p.FREQUENCIA_ATUAL,
           FREQUENCIA_SEMANAL_MINIMA |-> fmin,
           FREQUENCIA_REPOSICAO |-> fr,
           FREQUENCIA |-> FrequenciaFinal(fmin, fr)]
      : p \in patrimonios }

\* step 13: every asset of a partner gets the largest FREQUENCIA of the partner
Padronizacao(freqs) ==
    { [r EXCEPT !.FREQUENCIA = SetMax({q.FREQUENCIA : q \in {x \in freqs : x.PARCEIRO = r.PARCEIRO}})]
      : r \in freqs }

-----------------------------------------------------------------------------
(* Frequency Engine: specification *)

\* The stages that are not part of a run hold nothing: every specification runs one stage
\* (ativos) and leaves the variables of the others at rest.
Idle(ativos) ==
    /\ IF "freq" \in ativos THEN TRUE
       ELSE /\ freq_pc = "idle"
            /\ patrimonios_in = {}
            /\ linhas_in = {}
            /\ parceiros_in = {}
            /\ depara_in = {}
            /\ freq_params = [visitas_duplas |-> FALSE, freq_flex |-> {}, padronizacao |-> FALSE]
            /\ visitas_rep = {}
            /\ patrimonios_out = {}
            /\ parceiros_out = {}
            /\ depara_out = {}
            /\ frequencias = {}
    /\ IF "cron" \in ativos THEN TRUE
       ELSE /\ cron_pc = "idle"
            /\ dias_semana = 0
            /\ freq_df = {}
            /\ dia_entrega = <<>>
            /\ cron_status = "idle"
            /\ cronograma = {}
    /\ IF "group" \in ativos THEN TRUE
       ELSE /\ grp_pc = "idle"
            /\ lotes_df = {}
            /\ group_num = 0
            /\ max_time = 0
    /\ IF "match" \in ativos THEN TRUE
       ELSE /\ match_pc = "idle"
            /\ result_livros_df = {}
            /\ tempo_total_semana = 0
            /\ x_aloc = {}
            /\ alocation_dict = <<>>
            /\ excedem_44h = 0
    /\ IF "retry" \in ativos THEN TRUE
       ELSE /\ retry_pc = "idle"
            /\ rota_1_pra_1 = FALSE
            /\ tempo_total_semana_adj = 0
            /\ percentil_deslocamento = 0
            /\ tentativas = 0
            /\ check_livros = <<>>
    /\ IF "router" \in ativos THEN TRUE
       ELSE /\ router_pc = "idle"
            /\ grouped_df = {}
            /\ n_p_aux = 0
            /\ supervisor = 0
            /\ periodo = 0
            /\ result_df = {}
            /\ saida = <<>>
    /\ IF "peak" \in ativos THEN TRUE
       ELSE /\ peak_pc = "idle"
            /\ peak_n_p = 0
            /\ patr_freq = <<>>
            /\ carga = <<>>
            /\ max_w = 0
    /\ IF "gvp" \in ativos THEN TRUE
       ELSE /\ gvp_pc = "idle"
            /\ gvp_n_p = 0
            /\ gvp_f = 0
            /\ gvp_current = 0
            /\ gvp_pattern = <<>>
            /\ gvp_visit_pattern = <<>>
            /\ gvp_s = 0
            /\ gvp_unique = {}
            /\ gvp_result = <<>>
    /\ IF "post" \in ativos THEN TRUE
       ELSE /\ post_pc = "idle"
            /\ post_rota = <<>>
            /\ tempo_entrada = <<>>
            /\ duracao = 0
            /\ distancia = 0
            /\ livro_periodo = 0
            /\ config_J9 = 0
            /\ escalas = <<>>
            /\ result_livro = <<>>
    /\ IF "promo" \in ativos THEN TRUE
       ELSE /\ promo_pc = "idle"
            /\ promo_tmax = 0
            /\ promo_livros = <<>>
            /\ abastecedor_dict = {}
    /\ IF "lote" \in ativos THEN TRUE
       ELSE /\ lote_pc = "idle"
            /\ lote_modo_1p1 = FALSE
            /\ lote_periodo = 0
            /\ lote_parceiros = <<>>
            /\ lote_grupos = <<>>
            /\ lote_duration = 0
            /\ lote_result = {}
            /\ lote_emitidos = {}
    /\ IF "um" \in ativos THEN TRUE
       ELSE /\ um_pc = "idle"
            /\ livros_agg = {}
            /\ depara_livro = <<>>
            /\ um_alocation = <<>>

\* the input tables of one branch: asset a1 at partner p1, asset a2 (always eligible for
\* splitting, minimum 3) at p1 or p2; partner p2 keeps the default window
InitFreq ==
    LET AssetNames == {"a1", "a2"}
        FreqMinValues == {0, 3}
        FreqAtualValues == {2, 7}
        \* SKU lines: weekly consumption, capacity, reposition level in percent.
        \* They give FREQ_BASEADO_EM_CONSUMO 4, 9 and 12.
        SkuLines == { [INSUMO |-> "k1", CONSUMO_SEMANAL |-> 20,  CAPACIDADE |-> 10, NIVEL_REPOSICAO |-> 50],
                      [INSUMO |-> "k2", CONSUMO_SEMANAL |-> 85,  CAPACIDADE |-> 10, NIVEL_REPOSICAO |-> 0],
                      [INSUMO |-> "k3", CONSUMO_SEMANAL |-> 120, CAPACIDADE |-> 10, NIVEL_REPOSICAO |-> 0] }
        \* opening windows [INICIO_FUNCIONAMENTO, FIM_FUNCIONAMENTO] in seconds of the day:
        \* 08:00-18:00 (10h), 08:00-16:00 (8h), 09:00-12:00 (3h)
        Janelas == { <<28800, 64800>>, <<28800, 57600>>, <<32400, 43200>> }
        \* window of the second partner: 08:00-18:00
        JanelaPadrao == <<28800, 64800>>
        LinhasDe(S) == {L \in SUBSET S : Cardinality(L) <= MaxLinhas}
    IN  /\ Idle({"freq"})
        /\ freq_pc = "input"
        /\ \E dpw \in [AssetNames -> DiasPorSemanaValues],
              fmin \in [AssetNames -> FreqMinValues],
              fcur \in [AssetNames -> FreqAtualValues],
              rep \in [AssetNames -> BOOLEAN],
              host \in [AssetNames -> PartnerNames],
              lin \in [AssetNames -> LinhasDe(SkuLines)],
              jan \in [PartnerNames -> Janelas] :
            /\ host["a1"] = "p1"
            /\ jan["p2"] = JanelaPadrao
            /\ rep["a2"] /\ fmin["a2"] = 3
            /\ patrimonios_in =
                 { [PARCEIRO |-> Id(host[a]), PATRIMONIO |-> Id(a),
                    DIAS_POR_SEMANA |-> dpw[a],
                    FREQUENCIA_SEMANAL_MINIMA |-> fmin[a],
                    FREQUENCIA_ATUAL |-> fcur[a],
                    APLICA_REPASSE_BOOL |-> rep[a]] : a \in AssetNames }
            /\ linhas_in =
                 UNION { { [PARCEIRO |-> Id(host[a]), PATRIMONIO |-> Id(a), INSUMO |-> l.INSUMO,
                            CONSUMO_SEMANAL |-> l.CONSUMO_SEMANAL, CAPACIDADE |-> l.CAPACIDADE,
                            NIVEL_REPOSICAO |-> l.NIVEL_REPOSICAO] : l \in lin[a] }
                         : a \in AssetNames }
            /\ parceiros_in =
                 { [PARCEIRO |-> Id(p), INICIO_FUNCIONAMENTO |-> jan[p][1],
                    FIM_FUNCIONAMENTO |-> jan[p][2]] : p \in PartnerNames }
        /\ depara_in = { [PARCEIRO |-> Id(p), POINT_ID |-> p] : p \in PartnerNames }
        /\ freq_params = [visitas_duplas |-> FALSE, freq_flex |-> {}, padronizacao |-> FALSE]
        /\ visitas_rep = {}
        /\ patrimonios_out = {}
        /\ parceiros_out = {}
        /\ depara_out = {}
        /\ frequencias = {}

\* frequency.main (mode b: NIVEL_REPOSICAO of each SKU line), steps 6 to 16
FrequencyMain ==
    \* freq_flex values tried: {} is None (parameter not supplied), {k} is the value k
    LET FlexValues == { {}, {1} }
    IN  /\ freq_pc = "input"
        /\ \E duplas \in BOOLEAN, flex \in FlexValues, padron \in BOOLEAN :
            LET visitas0 == VisitasBase(linhas_in, patrimonios_in)
                autorizados == {p.PATRIMONIO : p \in {q \in patrimonios_in : q.APLICA_REPASSE_BOOL}}
                rep == IF duplas
                       THEN Repasses(visitas0, patrimonios_in, parceiros_in, depara_in,
                                     autorizados, GapMinDefault)
                       ELSE [visitas |-> visitas0, patrimonios |-> patrimonios_in,
                             parceiros |-> parceiros_in, depara |-> depara_in]
                freqs == FrequenciasSemPadronizacao(rep.visitas, rep.patrimonios, flex)
            IN  /\ freq_params' = [visitas_duplas |-> duplas, freq_flex |-> flex,
                                   padronizacao |-> padron]
                /\ visitas_rep' = rep.visitas
                /\ patrimonios_out' = rep.patrimonios
                /\ parceiros_out' = rep.parceiros
                /\ depara_out' = rep.depara
                /\ frequencias' = IF padron THEN Padronizacao(freqs) ELSE freqs
        /\ freq_pc' = "done"
        /\ UNCHANGED <<patrimonios_in, linhas_in, parceiros_in, depara_in>>
        /\ UNCHANGED <<cronVars, grpVars, matchVars, retryVars, routerVars, peakVars, gvpVars, postVars,
                   promoVars, loteVars, umVars>>

SpecFreq == InitFreq /\ [][FrequencyMain]_vars

-----------------------------------------------------------------------------
(* Frequency Engine: properties *)

\* the row of the rewritten sheet 'patrimonios' an output row belongs to
PatOut(r) == CHOOSE p \in patrimonios_out :
                 p.PARCEIRO = r.PARCEIRO /\ p.PATRIMONIO = r.PATRIMONIO

\* the row of the sheet 'Frequencias' of an asset identifier
FreqDe(id) == CHOOSE r \in frequencias : r.PATRIMONIO = id

\* consumption-based frequency of an asset: largest value over the lines of a table
\* (0 when the asset has no line: the left merge fills the missing value with 0)
FcDe(tabela, id) ==
    LET S == {v.FREQ_BASEADO_EM_CONSUMO : v \in {x \in tabela : x.PATRIMONIO = id}}
    IN  IF S = {} THEN 0 ELSE SetMax(S)

\* the assets of the input that repasses has split into _A and _B
Divididos == {p \in patrimonios_in :
                AddSuffix(p.PATRIMONIO, "_A") \in {q.PATRIMONIO : q \in patrimonios_out}}

FlexK == CHOOSE k \in freq_params.freq_flex : TRUE

\* C3: for every asset of the sheet 'Frequencias', the final frequency is at most
\* the asset's DIAS_POR_SEMANA (with or without flex and standardization).
C3_FinalAtMostDiasPorSemana ==
    freq_pc = "done" =>
        \A r \in frequencias : r.FREQUENCIA <= PatOut(r).DIAS_POR_SEMANA

\* C4: for every asset of the sheet 'Frequencias', the final frequency is at least the
\* asset's FREQUENCIA_SEMANAL_MINIMA (for a split half: the halved minimum repasses gives
\* it), at least FREQUENCIA_ATUAL - freq_flex when freq_flex is supplied, and without
\* standardization it equals max(fmin', fr).
C4_FinalAtLeastMinimum ==
    freq_pc = "done" =>
        \A r \in frequencias :
            LET p == PatOut(r)
                piso == IF freq_params.freq_flex = {} THEN p.FREQUENCIA_SEMANAL_MINIMA
                        ELSE Max2(p.FREQUENCIA_SEMANAL_MINIMA, p.FREQUENCIA_ATUAL - FlexK)
            IN  /\ r.FREQUENCIA >= p.FREQUENCIA_SEMANAL_MINIMA
                /\ r.FREQUENCIA >= piso
                /\ ~freq_params.padronizacao =>
                       r.FREQUENCIA = Max2(piso, r.FREQUENCIA_REPOSICAO)

\* C4 witness: main has run with freq_flex supplied and some asset ends on the floor
\* FREQUENCIA_ATUAL - freq_flex, above both its minimum and its reposition frequency.
C4_Witness ==
    /\ freq_pc = "done"
    /\ freq_params.freq_flex # {}
    /\ \E r \in frequencias :
         /\ r.FREQUENCIA = PatOut(r).FREQUENCIA_ATUAL - FlexK
         /\ r.FREQUENCIA > PatOut(r).FREQUENCIA_SEMANAL_MINIMA
         /\ r.FREQUENCIA > r.FREQUENCIA_REPOSICAO

\* C5 as claimed: the final frequency is at least max(fmin, min(fcur, dpw)) for every
\* asset, whatever the consumption-based frequency is.
C5_FinalAtLeastCurrentCapped ==
    freq_pc = "done" =>
        \A r \in frequencias :
            LET p == PatOut(r)
            IN  r.FREQUENCIA >= Max2(p.FREQUENCIA_SEMANAL_MINIMA,
                                     Min2(p.FREQUENCIA_ATUAL, p.DIAS_POR_SEMANA))

\* C5 amended: the final frequency is at least max(fmin, min(fc, fcur, dpw)), fc being
\* the asset's consumption-based frequency (0 without consumption): the current
\* frequency caps the proposal and is not a floor.
C5_FinalAtLeastRepositionCapped ==
    freq_pc = "done" =>
        \A r \in frequencias :
            LET p == PatOut(r)
                fc == FcDe(visitas_rep, r.PATRIMONIO)
            IN  r.FREQUENCIA >= Max2(p.FREQUENCIA_SEMANAL_MINIMA,
                                     Min2(fc, Min2(p.FREQUENCIA_ATUAL, p.DIAS_POR_SEMANA)))

\* C5 witness: an asset whose consumption-based frequency is below its current frequency
\* ends below min(fcur, dpw), on the consumption-based frequency.
C5_Witness ==
    /\ freq_pc = "done"
    /\ \E r \in frequencias :
         LET p == PatOut(r)
             fc == FcDe(visitas_rep, r.PATRIMONIO)
         IN  /\ fc > 0
             /\ fc < Min2(p.FREQUENCIA_ATUAL, p.DIAS_POR_SEMANA)
             /\ r.FREQUENCIA = fc
             /\ r.FREQUENCIA > p.FREQUENCIA_SEMANAL_MINIMA

ParceirosDivididos ==
    {b \in parceiros_in :
        /\ AddSuffix(b.PARCEIRO, "_A") \in {q.PARCEIRO : q \in parceiros_out}
        /\ AddSuffix(b.PARCEIRO, "_B") \in {q.PARCEIRO : q \in parceiros_out}}

ParcOut(id) == CHOOSE q \in parceiros_out : q.PARCEIRO = id

\* C10: a split partner with a 10h window and the 3h gap gets p_A = [open, open + 3.5h]
\* and p_B = [open + 6.5h, open + 10h]; in general p_A and p_B are the two equal halves
\* of what is left of the window once a gap of the applied length is taken from the middle.
C10_SplitWindowsEqualHalves ==
    freq_pc = "done" =>
        \A b \in ParceirosDivididos :
            LET open == b.INICIO_FUNCIONAMENTO
                close == b.FIM_FUNCIONAMENTO
                D == close - open
                G == GapAplicado(D, GapMinDefault)
                A == ParcOut(AddSuffix(b.PARCEIRO, "_A"))
                B == ParcOut(AddSuffix(b.PARCEIRO, "_B"))
            IN  /\ A.INICIO_FUNCIONAMENTO = open
                /\ A.FIM_FUNCIONAMENTO = open + ((D - G) \div 2)
                /\ B.INICIO_FUNCIONAMENTO = close - ((D - G) \div 2)
                /\ B.FIM_FUNCIONAMENTO = close
                /\ D = 36000 =>
                     /\ A.FIM_FUNCIONAMENTO = open + 12600
                     /\ B.INICIO_FUNCIONAMENTO = open + 23400

\* C11: for every partner split by repasses, whatever the window duration and the gap,
\* p_A starts at open, p_B ends at close, open <= end(p_A) <= start(p_B) <= close and
\* both windows are non-empty, the degenerate case D <= G + 60s included.
C11_SplitWindowsInsideOriginal ==
    freq_pc = "done" =>
        \A b \in ParceirosDivididos :
            LET open == b.INICIO_FUNCIONAMENTO
                close == b.FIM_FUNCIONAMENTO
                A == ParcOut(AddSuffix(b.PARCEIRO, "_A"))
                B == ParcOut(AddSuffix(b.PARCEIRO, "_B"))
            IN  /\ A.INICIO_FUNCIONAMENTO = open
                /\ B.FIM_FUNCIONAMENTO = close
                /\ open <= A.FIM_FUNCIONAMENTO
                /\ A.FIM_FUNCIONAMENTO <= B.INICIO_FUNCIONAMENTO
                /\ B.INICIO_FUNCIONAMENTO <= close
                /\ A.INICIO_FUNCIONAMENTO < A.FIM_FUNCIONAMENTO
                /\ B.INICIO_FUNCIONAMENTO < B.FIM_FUNCIONAMENTO

-----------------------------------------------------------------------------
(* Weekly Scheduler (cronograma.py), one branch.
   Days are the indices 0 (Monday) .. 5 (Saturday); a pattern is the set of its days. *)

\* Python's round() on the quotient n / d: to the nearest integer, halves to the even one
RoundHalfEven(n, d) ==
    LET q == n \div d
        r == n % d
    IN  IF 2 * r < d THEN q
        ELSE IF 2 * r > d THEN q + 1
        ELSE IF q % 2 = 0 THEN q ELSE q + 1

\* the equally spaced base pattern of f visits over n_p days
BasePattern(n_p, f) == {RoundHalfEven(i * n_p, f) % n_p : i \in 0..(f - 1)}

ShiftPattern(pattern, n_p, s) == {(t + s) % n_p : t \in pattern}

\* generate_visit_patterns: for every f in 1..n_p, the rotations of the base pattern
generate_visit_patterns(n_p) ==
    [f \in 1..n_p |-> {ShiftPattern(BasePattern(n_p, f), n_p, s) : s \in 0..(n_p - 1)}]

\* the catalogs of every DIAS_POR_SEMANA value present, merged by frequency
merged_visit_patterns(n_dias) ==
    [f \in 1..SetMax(n_dias) |->
        UNION {generate_visit_patterns(n_dia)[f] : n_dia \in {m \in n_dias : f <= m}}]

\* PATRIMONIO.str.contains('_B'): identifiers carry the marker only as a suffix here
ContainsB(id) == id[2] = "_B"

ALLOW_SATURDAY(row) ==
    row.DIAS_POR_SEMANA = 6 /\ row.FREQUENCIA = 6 /\ ~ContainsB(row.PATRIMONIO)

\* dia_map, minus one: only Monday to Friday have an index, anything else is NaN ({})
DiaEntregaIdx(dia) ==
    CASE dia = "SEGUNDA-FEIRA" -> {0}
      [] dia = "TERCA-FEIRA"   -> {1}
      [] dia = "QUARTA-FEIRA"  -> {2}
      [] dia = "QUINTA-FEIRA"  -> {3}
      [] dia = "SEXTA-FEIRA"   -> {4}
      [] OTHER                 -> {}

\* candidate patterns of an asset: its frequency's patterns, Saturday ones removed
\* unless the asset is allowed Saturday
group_pattern(row, visit_patterns) ==
    {dias \in visit_patterns[row.FREQUENCIA] : ALLOW_SATURDAY(row) \/ 5 \notin dias}

\* the ways of choosing one candidate pattern for each asset (sum_p x[i][p] == 1)
RECURSIVE Atribuicoes(_, _)
Atribuicoes(ids, cand) ==
    IF ids = {} THEN {<<>>}
    ELSE LET i == CHOOSE j \in ids : TRUE
         IN  {(i :> dias) @@ x : dias \in cand[i], x \in Atribuicoes(ids \ {i}, cand)}

\* the assignments the constraints of the MIP admit: one candidate pattern per asset,
\* and for every partner with a fixed weekday some asset of it visited on that day
Viaveis(rows, visit_patterns, fixo) ==
    LET ids == {r.PATRIMONIO : r \in rows}
        rowOf == [i \in ids |-> CHOOSE r \in rows : r.PATRIMONIO = i]
        cand == [i \in ids |-> group_pattern(rowOf[i], visit_patterns)]
    IN  {x \in Atribuicoes(ids, cand) :
            \A parc \in DOMAIN fixo :
                LET patrimonios_parc == {i \in ids : rowOf[i].PARCEIRO = parc}
                IN  (DiaEntregaIdx(fixo[parc]) # {} /\ patrimonios_parc # {}) =>
                       \E i \in patrimonios_parc :
                           DiaEntregaIdx(fixo[parc]) \subseteq x[i]}

\* the objective max_w of an assignment: the largest load over the days 0..n_p-1
MaxW(x, n_p) ==
    SetMax({Cardinality({i \in DOMAIN x : t \in x[i]}) : t \in 0..(n_p - 1)})

\* the assignments of least max_w
Otimos(viaveis, n_p) ==
    LET w == [x \in viaveis |-> MaxW(x, n_p)]
        melhor == CHOOSE m \in {w[x] : x \in viaveis} : \A y \in viaveis : m <= w[y]
    IN  {x \in viaveis : w[x] = melhor}

\* the pivot: one row per asset, flagged in the columns 1..n_p only
Pivot(rows, x, n_p) ==
    {[PARCEIRO |-> r.PARCEIRO, PATRIMONIO |-> r.PATRIMONIO, FREQUENCIA |-> r.FREQUENCIA,
      DIAS |-> {d \in x[r.PATRIMONIO] : d < n_p}] : r \in rows}

DiasSemanaConfig == {5, 6}

\* the sheet 'Frequencias' of one branch: asset a1 at partner p1, asset a2 (or its
\* half a2_B) at partner p1 or p2
InitCron ==
    LET FrequenciaValues == 0..6
        DiaEntregaValues == {"", "SEXTA-FEIRA", "SABADO"}
    IN  /\ Idle({"cron"})
        /\ cron_pc = "input"
        /\ dias_semana \in DiasSemanaConfig
        /\ \E f1 \in FrequenciaValues, f2 \in FrequenciaValues,
              d1 \in DiasPorSemanaValues, d2 \in DiasPorSemanaValues,
              h2 \in PartnerNames, suf \in {"", "_B"} :
             freq_df = {[PARCEIRO |-> Id("p1"), PATRIMONIO |-> Id("a1"),
                         FREQUENCIA |-> f1, DIAS_POR_SEMANA |-> d1],
                        [PARCEIRO |-> <<h2, suf>>, PATRIMONIO |-> <<"a2", suf>>,
                         FREQUENCIA |-> f2, DIAS_POR_SEMANA |-> d2]}
        /\ dia_entrega \in [{r.PARCEIRO : r \in freq_df} -> DiaEntregaValues]
        /\ cron_status = "NOT_SOLVED"
        /\ cronograma = {}

\* main: a frequency outside the merged catalog raises KeyError and nothing is written;
\* otherwise the MIP is solved, its status is not looked at, and the sheet receives the
\* pattern of every asset whose variables the solver has set (none when it has no solution)
CronogramaKeyError ==
    /\ cron_pc = "input"
    /\ LET visit_patterns == merged_visit_patterns({r.DIAS_POR_SEMANA : r \in freq_df})
       IN  \E r \in freq_df : r.FREQUENCIA \notin DOMAIN visit_patterns
    /\ cron_pc' = "KeyError"
    /\ UNCHANGED <<dias_semana, freq_df, dia_entrega, cron_status, cronograma>>
    /\ UNCHANGED <<freqVars, grpVars, matchVars, retryVars, routerVars, peakVars, gvpVars, postVars,
                   promoVars, loteVars, umVars>>

CronogramaInfeasible ==
    /\ cron_pc = "input"
    /\ LET visit_patterns == merged_visit_patterns({r.DIAS_POR_SEMANA : r \in freq_df})
       IN  /\ \A r \in freq_df : r.FREQUENCIA \in DOMAIN visit_patterns
           /\ Viaveis(freq_df, visit_patterns, dia_entrega) = {}
    /\ cron_pc' = "done"
    /\ cron_status' = "INFEASIBLE"
    /\ cronograma' = {}
    /\ UNCHANGED <<dias_semana, freq_df, dia_entrega>>
    /\ UNCHANGED <<freqVars, grpVars, matchVars, retryVars, routerVars, peakVars, gvpVars, postVars,
                   promoVars, loteVars, umVars>>

CronogramaOptimal ==
    /\ cron_pc = "input"
    /\ LET visit_patterns == merged_visit_patterns({r.DIAS_POR_SEMANA : r \in freq_df})
       IN  /\ \A r \in freq_df : r.FREQUENCIA \in DOMAIN visit_patterns
           /\ \E x \in Otimos(Viaveis(freq_df, visit_patterns, dia_entrega), dias_semana) :
                cronograma' = Pivot(freq_df, x, dias_semana)
    /\ cron_pc' = "done"
    /\ cron_status' = "OPTIMAL"
    /\ UNCHANGED <<dias_semana, freq_df, dia_entrega>>
    /\ UNCHANGED <<freqVars, grpVars, matchVars, retryVars, routerVars, peakVars, gvpVars, postVars,
                   promoVars, loteVars, umVars>>

NextCron == CronogramaKeyError \/ CronogramaInfeasible \/ CronogramaOptimal

SpecCron == InitCron /\ [][NextCron]_vars

-----------------------------------------------------------------------------
(* Weekly Scheduler: properties *)

FreqRow(id) == CHOOSE r \in freq_df : r.PATRIMONIO = id

\* C1: every asset of the emitted schedule has exactly FREQUENCIA flagged days, all of
\* them indices in 0..dias_semana-1, and none of them index 5 unless the asset is
\* allowed Saturday, whatever mix of DIAS_POR_SEMANA values (5 and 6) the input holds.
C1_FlagsMatchFrequency ==
    cron_pc = "done" =>
        \A c \in cronograma :
            /\ Cardinality(c.DIAS) = c.FREQUENCIA
            /\ c.DIAS \subseteq 0..(dias_semana - 1)
            /\ ~ALLOW_SATURDAY(FreqRow(c.PATRIMONIO)) => 5 \notin c.DIAS

\* C2: once main has been run, every asset of the sheet 'Frequencias', whatever its
\* frequency (0 included), has exactly one row of the schedule; none is left without
\* a pattern.
C2_EveryAssetHasOnePattern ==
    cron_pc # "input" =>
        \A r \in freq_df :
            Cardinality({c \in cronograma : c.PATRIMONIO = r.PATRIMONIO}) = 1

-----------------------------------------------------------------------------
(* Route Builder: grouping of the assets of a partner and period (solve.py), one branch.
   The label PARCEIRO + 'P' + PERIODO + 'G' + n of a row is its field GROUP = n together
   with its fields PARCEIRO and PERIODO. *)

\* the order of the identifiers in sort_values
OrdemPatrimonio(id) ==
    CASE id[1] = "a1" -> 1
      [] id[1] = "a2" -> 2
      [] id[1] = "a3" -> 3

\* row r is not after row s in the order (TEMPO_SERVICO, PATRIMONIO) of a partner and period
NaoDepois(r, s) ==
    \/ r.TEMPO_SERVICO < s.TEMPO_SERVICO
    \/ /\ r.TEMPO_SERVICO = s.TEMPO_SERVICO
       /\ OrdemPatrimonio(r.PATRIMONIO) <= OrdemPatrimonio(s.PATRIMONIO)

MesmoGrupo(r, s) ==
    r.PERIODO = s.PERIODO /\ r.PARCEIRO = s.PARCEIRO /\ r.GROUP = s.GROUP

RECURSIVE SomaServico(_)
SomaServico(S) ==
    IF S = {} THEN 0
    ELSE LET r == CHOOSE x \in S : TRUE
         IN  r.TEMPO_SERVICO + SomaServico(S \ {r})

\* AC_TIME: cumulative sum of the service times within the group, in sorted order
AC_TIME(lotes, r) == SomaServico({s \in lotes : MesmoGrupo(r, s) /\ NaoDepois(s, r)})

Excede_SemEntrada(lotes, r, tmax) == AC_TIME(lotes, r) > tmax

\* the rows the loop moves: cumulative time plus entry time above MAX_TIME
Excede(lotes, r, tmax) == AC_TIME(lotes, r) + r.TEMPO_DE_ENTRADA > tmax

Index(lotes, tmax) == {r \in lotes : Excede(lotes, r, tmax)}

MaxGroupNum == 4

\* the state on entry to the loop: every row in group G1, group_num = 1
InitGroup ==
    LET AssetNamesGroup == {"a1", "a2", "a3"}
        TempoServicoValues == {600, 1200, 2400}
        TempoEntradaValues == {0, 600}
        TempoMaxValues == {1800, 3000}
        PeriodoValues == {1, 2}
    IN  /\ Idle({"group"})
        /\ grp_pc = "loop"
        /\ group_num = 1
        /\ max_time \in TempoMaxValues
        /\ \E host \in [AssetNamesGroup -> PartnerNames],
              per \in [AssetNamesGroup -> PeriodoValues],
              serv \in [AssetNamesGroup -> TempoServicoValues],
              entrada \in [PartnerNames -> TempoEntradaValues] :
             /\ host["a1"] = "p1"
             /\ lotes_df = {[PARCEIRO |-> Id(host[a]), PERIODO |-> per[a], PATRIMONIO |-> Id(a),
                             TEMPO_SERVICO |-> serv[a], TEMPO_DE_ENTRADA |-> entrada[host[a]],
                             GROUP |-> 1] : a \in AssetNamesGroup}

\* one pass of the while loop: the rows over the limit open the next group
GroupLoop ==
    /\ grp_pc = "loop"
    /\ Index(lotes_df, max_time) # {}
    /\ group_num < MaxGroupNum
    /\ group_num' = group_num + 1
    /\ lotes_df' = {IF r \in Index(lotes_df, max_time)
                    THEN [r EXCEPT !.GROUP = group_num + 1] ELSE r : r \in lotes_df}
    /\ UNCHANGED <<grp_pc, max_time>>
    /\ UNCHANGED <<freqVars, cronVars, matchVars, retryVars, routerVars, peakVars, gvpVars, postVars,
                   promoVars, loteVars, umVars>>

\* the loop ends when no row is over the limit
GroupDone ==
    /\ grp_pc = "loop"
    /\ Index(lotes_df, max_time) = {}
    /\ grp_pc' = "done"
    /\ UNCHANGED <<lotes_df, group_num, max_time>>
    /\ UNCHANGED <<freqVars, cronVars, matchVars, retryVars, routerVars, peakVars, gvpVars, postVars,
                   promoVars, loteVars, umVars>>

NextGroup == GroupLoop \/ GroupDone

SpecGroup == InitGroup /\ [][NextGroup]_vars

\* The loop is sequential code: a pass that can be made is made.
SpecGroupFair == SpecGroup /\ WF_vars(NextGroup)

-----------------------------------------------------------------------------
(* Grouping: properties *)

\* C6: once the grouping loop has finished, for every group (the rows of one partner,
\* period and GROUP number) the sum of the service times plus the partner's entry
\* time is at most MAX_TIME.
C6_GroupWithinMaxTime ==
    grp_pc = "done" =>
        \A r \in lotes_df :
            SomaServico({s \in lotes_df : MesmoGrupo(r, s)}) + r.TEMPO_DE_ENTRADA <= max_time

\* C6 witness: the loop has finished after opening a second group, with a partner that
\* has a positive entry time and whose first group holds two assets.
C6_Witness ==
    /\ grp_pc = "done"
    /\ group_num >= 2
    /\ \E r \in lotes_df, s \in lotes_df, t \in lotes_df :
         /\ r # s /\ MesmoGrupo(r, s) /\ r.GROUP = 1
         /\ t.PARCEIRO = r.PARCEIRO /\ t.PERIODO = r.PERIODO /\ t.GROUP = 2
         /\ r.TEMPO_DE_ENTRADA > 0

-----------------------------------------------------------------------------
(* Agent Matcher (solve.py), normal mode, one branch and supervisor.
   A route row carries LIVRO, PERIODO, MODAL, TEMPO_TOTAL (minutes, service plus travel
   plus entry), HORAS_DIARIAS (hours), PATRIMONIOS (the set of its assets; the column
   is its size) and LAT, the position of its centre on a north-south line, in km. *)

\* the order of the rows of result_livros_df (groupby sorts by PERIODO, then LIVRO)
OrdemLivro(l) ==
    CASE l = "L1" -> 1
      [] l = "L2" -> 2
      [] l = "L3" -> 3
      [] l = "L4" -> 4

\* scale tiers and the daily limit, seconds
Escalas == {4 * 3600}
TempoMaxDia == 8 * 3600

\* HORAS_DIARIAS of a route of total time t seconds: the smallest tier that holds t,
\* the daily limit above every tier; in hours
HorasDiarias(t) ==
    LET cabem == {e \in Escalas : e >= t}
    IN  (IF cabem = {} THEN TempoMaxDia
         ELSE CHOOSE e \in cabem : \A g \in cabem : e <= g) \div 3600

\* 'Dist Max' of the branch: kilometres of the configuration times 1000
DistMaxKm == 20
max_dist == DistMaxKm * 1000

\* DIST of a pair of routes, km (same longitude)
Dist(a) == IF a.I.LAT >= a.J.LAT THEN a.I.LAT - a.J.LAT ELSE a.J.LAT - a.I.LAT

\* PATR_COMUM: shared assets over the smaller of the two asset counts, as a fraction
PatrComumNum(a) == Cardinality(a.I.PATRIMONIOS \cap a.J.PATRIMONIOS)
PatrComumDen(a) == Min2(Cardinality(a.I.PATRIMONIOS), Cardinality(a.J.PATRIMONIOS))

B2N(b) == IF b THEN 1 ELSE 0

\* SORT_1 .. SORT_4
SortKeys(a) ==
    << B2N(a.J.MODAL # a.I.MODAL),
       B2N(a.I.HORAS_DIARIAS # a.J.HORAS_DIARIAS),
       B2N(a.I.MODAL # "Moto/Carro"),
       0 - a.I.HORAS_DIARIAS >>

LexMenor(u, v) ==
    \E k \in 1..Len(u) : u[k] < v[k] /\ \A m \in 1..(k - 1) : u[m] = v[m]

\* row a comes before row b in the sorted sim_df: SORT_1..SORT_4, then SORT_5 (larger
\* PATR_COMUM first), then SORT_6 (smaller DIST first); ties keep the order of the
\* cross merge (rows of I, then rows of J)
Antes(a, b) ==
    LET r5a == PatrComumNum(a) * PatrComumDen(b)
        r5b == PatrComumNum(b) * PatrComumDen(a)
        posA == <<OrdemLivro(a.I.LIVRO), OrdemLivro(a.J.LIVRO)>>
        posB == <<OrdemLivro(b.I.LIVRO), OrdemLivro(b.J.LIVRO)>>
    IN  \/ LexMenor(SortKeys(a), SortKeys(b))
        \/ /\ SortKeys(a) = SortKeys(b)
           /\ \/ r5a > r5b
              \/ r5a = r5b /\ Dist(a) < Dist(b)
              \/ r5a = r5b /\ Dist(a) = Dist(b) /\ LexMenor(posA, posB)

\* a row put in its place in a sorted sequence of rows
RECURSIVE Inserir(_, _)
Inserir(seq, a) ==
    IF seq = <<>> THEN <<a>>
    ELSE IF Antes(a, Head(seq)) THEN <<a>> \o seq
         ELSE <<Head(seq)>> \o Inserir(Tail(seq), a)

RECURSIVE Ordenar(_)
Ordenar(S) ==
    IF S = {} THEN <<>>
    ELSE LET a == CHOOSE b \in S : TRUE
         IN  Inserir(Ordenar(S \ {a}), a)

\* sim_df: the pairs of routes of different periods within max_dist, sorted
SimDf(livros) ==
    Ordenar({a \in [I : livros, J : livros] :
                Dist(a) <= max_dist /\ a.I.PERIODO # a.J.PERIODO})

\* the values of a sequence without repetition, in order of first occurrence
RECURSIVE Unicos(_, _)
Unicos(seq, acc) ==
    IF seq = <<>> THEN acc
    ELSE IF \E k \in 1..Len(acc) : acc[k] = Head(seq)
         THEN Unicos(Tail(seq), acc)
         ELSE Unicos(Tail(seq), Append(acc, Head(seq)))

HList(sim) == Unicos([k \in 1..Len(sim) |-> sim[k].I.LIVRO], <<>>)

\* the rows of result_livros_df in order, and its periods in order of appearance
LivrosOrdenados(livros) ==
    [k \in 1..Cardinality(livros) |->
        CHOOSE r \in livros : Cardinality({q \in livros : OrdemLivro(q.LIVRO) < OrdemLivro(r.LIVRO)}) = k - 1]

Periodos(livros) ==
    LET ord == LivrosOrdenados(livros)
    IN  Unicos([k \in 1..Len(ord) |-> ord[k].PERIODO], <<>>)

SimList_SemPeriodo(sim, h, not_alocated, p) ==
    LET Sel(a) == a.I.LIVRO = h /\ a.J.LIVRO \in not_alocated
    IN  SelectSeq(sim, Sel)

\* sim_list: the candidates of route h among the unallocated routes of period p
SimList(sim, h, not_alocated, p) ==
    LET Sel(a) == a.I.LIVRO = h /\ a.J.LIVRO \in not_alocated /\ a.J.PERIODO = p
    IN  SelectSeq(sim, Sel)

\* the loop over p_list for the base route h of agent i: the first candidate of each
\* other period joins the agent and leaves not_alocated
RECURSIVE PLoop(_, _, _, _, _)
PLoop(sim, h, i, p_list, st) ==
    IF p_list = <<>> THEN st
    ELSE LET sim_list == SimList(sim, h, st.not_alocated, Head(p_list))
         IN  IF Len(sim_list) > 0
             THEN LET j == sim_list[1].J.LIVRO
                  IN  PLoop(sim, h, i, Tail(p_list),
                            [st EXCEPT !.x = @ \cup {<<i, j>>},
                                       !.not_alocated = @ \ {j}])
             ELSE PLoop(sim, h, i, Tail(p_list), st)

\* the loop over h_list: a route still unallocated becomes the base of its own agent
RECURSIVE HLoop(_, _, _, _)
HLoop(sim, livros, h_list, st) ==
    IF h_list = <<>> THEN st
    ELSE LET h == Head(h_list)
             i == OrdemLivro(h) - 1
             periodo_h == (CHOOSE r \in livros : r.LIVRO = h).PERIODO
             NaoH(p) == p # periodo_h
         IN  IF h \in st.not_alocated
             THEN HLoop(sim, livros, Tail(h_list),
                        PLoop(sim, h, i, SelectSeq(Periodos(livros), NaoH),
                              [x |-> st.x \cup {<<i, h>>},
                               y |-> st.y \cup {i},
                               not_alocated |-> st.not_alocated \ {h}]))
             ELSE HLoop(sim, livros, Tail(h_list), st)

Alocacao(livros) ==
    LET sim_df == SimDf(livros)
    IN  HLoop(sim_df, livros, HList(sim_df),
              [x |-> {}, y |-> {}, not_alocated |-> {r.LIVRO : r \in livros}])

\* the naming loop: the agents with y[i] = 1 are numbered from 1 in index order, and a
\* route gets the name of the last agent that owns it
AlocationDict(st) ==
    [j \in {a[2] : a \in st.x} |->
        LET i == SetMax({a[1] : a \in {b \in st.x : b[2] = j}})
        IN  Cardinality({k \in st.y : k <= i})]

RECURSIVE SomaTempo(_)
SomaTempo(S) ==
    IF S = {} THEN 0
    ELSE LET r == CHOOSE q \in S : TRUE
         IN  r.TEMPO_TOTAL + SomaTempo(S \ {r})

\* the routes of result_livros_df mapped to agent n
RotasDe(livros, aloc, n) == {r \in livros : r.LIVRO \in DOMAIN aloc /\ aloc[r.LIVRO] = n}

Abastecedores(aloc) == {aloc[j] : j \in DOMAIN aloc}

\* the diagnostic: TEMPO_SERVICO + TEMPO_DESLOCAMENTO are minutes by then, and are
\* divided by 3600 before the comparison with 44
Excedem44h(livros, aloc) ==
    Cardinality({n \in Abastecedores(aloc) :
                    SomaTempo(RotasDe(livros, aloc, n)) \div 60 > 44 * 3600})

\* the routes of one supervisor, in the order of result_livros_df: periods never
\* decrease from one row to the next
InitMatch ==
    LET LivroNames == {"L1", "L2", "L3", "L4"}
        PeriodoLivroValues == 1..3
        ModalValues == {"Moto/Carro", "A Pe"}
        TempoTotalValues == {12000, 27600}
        LatValues == {0, 30}
        PatrimoniosValues == {{"a1"}, {"a2"}}
        TempoTotalSemanaValues == {16, 44}
    IN  /\ Idle({"match"})
        /\ match_pc = "input"
        /\ tempo_total_semana \in TempoTotalSemanaValues
        /\ \E per \in {f \in [LivroNames -> PeriodoLivroValues] :
                          /\ f["L1"] = 1
                          /\ \A l \in LivroNames, m \in LivroNames :
                                OrdemLivro(l) <= OrdemLivro(m) => f[l] <= f[m]},
              modal \in [LivroNames -> ModalValues],
              tempo \in [{"L1", "L2", "L3"} -> TempoTotalValues],
              lat \in [{"L2", "L3"} -> LatValues],
              patr \in [{"L2"} -> PatrimoniosValues] :
             result_livros_df =
                 {[LIVRO |-> l, PERIODO |-> per[l], MODAL |-> modal[l],
                   TEMPO_TOTAL |-> IF l \in DOMAIN tempo THEN tempo[l] ELSE 27600,
                   HORAS_DIARIAS |-> HorasDiarias(IF l \in DOMAIN tempo THEN tempo[l] ELSE 27600),
                   LAT |-> IF l \in DOMAIN lat THEN lat[l] ELSE 0,
                   PATRIMONIOS |-> IF l \in DOMAIN patr THEN patr[l] ELSE {"a1"}] :
                  l \in LivroNames}
        /\ x_aloc = {}
        /\ alocation_dict = <<>>
        /\ excedem_44h = 0

\* the allocation of the supervisor's routes, the naming and the diagnostic
AgentMatcher ==
    /\ match_pc = "input"
    /\ LET st == Alocacao(result_livros_df)
           aloc == AlocationDict(st)
       IN  /\ x_aloc' = st.x
           /\ alocation_dict' = aloc
           /\ excedem_44h' = Excedem44h(result_livros_df, aloc)
    /\ match_pc' = "done"
    /\ UNCHANGED <<result_livros_df, tempo_total_semana>>
    /\ UNCHANGED <<freqVars, cronVars, grpVars, retryVars, routerVars, peakVars, gvpVars, postVars,
                   promoVars, loteVars, umVars>>

SpecMatch == InitMatch /\ [][AgentMatcher]_vars

-----------------------------------------------------------------------------
(* Agent Matcher: properties *)

LivroRow(l) == CHOOSE r \in result_livros_df : r.LIVRO = l

\* C7: once the allocation has run, no agent owns two routes of the same period
\* (weekday) and no route is owned by two agents.
C7_OneRoutePerDayOneAgentPerRoute ==
    match_pc = "done" =>
        /\ \A a \in x_aloc, b \in x_aloc :
              (a[1] = b[1] /\ a[2] # b[2]) =>
                  LivroRow(a[2]).PERIODO # LivroRow(b[2]).PERIODO
        /\ \A a \in x_aloc, b \in x_aloc : a[2] = b[2] => a[1] = b[1]

\* C7 witness: the allocation has run and some agent owns three routes of three days,
\* while a fourth route, of the same day as one of them, belongs to another agent.
C7_Witness ==
    /\ match_pc = "done"
    /\ \E i \in {a[1] : a \in x_aloc} :
         /\ Cardinality({a \in x_aloc : a[1] = i}) = 3
         /\ \E a \in x_aloc, b \in x_aloc :
              /\ a[1] = i /\ b[1] # i
              /\ LivroRow(a[2]).PERIODO = LivroRow(b[2]).PERIODO

\* C8: once the allocation has run, for every agent the sum of the total times of its
\* routes is at most the weekly budget times 1.09.
C8_BundleWithinWeeklyBudget ==
    match_pc = "done" =>
        \A n \in Abastecedores(alocation_dict) :
            SomaTempo(RotasDe(result_livros_df, alocation_dict, n)) * 100
                <= tempo_total_semana * 3600 * 109

\* ===========================================================================================
\* Route Builder: the weekly-capacity loop of main (solve.py l.602-613, l.686, l.1006-1037)
\* ===========================================================================================

\* The aggregate routes (LIVRO_AGG) of the run.
LivrosAgg == {"AGG1", "AGG2"}

\* TEMPO_OPERACAO of one aggregate route as l.1015-1017 computes it: seconds divided by 60,
\* that is minutes.  30 minutes, 40 hours and 48 hours.
OperacaoValues == {30, 2400, 2880}

\* Passes of the loop the model follows.
MaxTentativas == 11

\* l.1031: the rows of check_livros whose TEMPO_OPERACAO is above tempo_total_semana.
LivrosExcedidos(cl, total) == {l \in DOMAIN cl : cl[l] > total}

\* l.1033: int(np.ceil(tempo_total_semana_adj * 0.95)).
ReduzOrcamento(adj) == CeilDiv(adj * 95, 100)

InitRetry ==
    \* main's parameter tempo_total_semana, hours (default 44).
    LET OrcamentoValues == {20, 44}
    IN  /\ Idle({"match", "retry"})
        /\ match_pc = "idle"
        /\ result_livros_df = {}
        /\ x_aloc = {}
        /\ alocation_dict = <<>>
        /\ excedem_44h = 0
        /\ tempo_total_semana \in OrcamentoValues
        /\ rota_1_pra_1 \in BOOLEAN
        /\ tempo_total_semana_adj =
               IF rota_1_pra_1 THEN tempo_total_semana ELSE tempo_total_semana * 1000000
        /\ percentil_deslocamento = 50
        /\ tentativas = 0
        /\ check_livros = <<>>
        /\ retry_pc = "loop"

\* One pass of the loop in 1-to-1 mode whose routes exceed the budget test of l.1031: the
\* budget is cut and the percentile raised, and the loop goes round again.  The routes of a
\* pass are what the router returns for it; the capacity lote.cap counts groups (demand 1
\* each, l.698) and the percentile is read before the loop only (l.587).
RetryExceeded ==
    /\ retry_pc = "loop"
    /\ rota_1_pra_1
    /\ tentativas < MaxTentativas
    /\ \E cl \in [LivrosAgg -> OperacaoValues] :
           /\ LivrosExcedidos(cl, tempo_total_semana) # {}
           /\ check_livros' = cl
    /\ tentativas' = tentativas + 1
    /\ tempo_total_semana_adj' = ReduzOrcamento(tempo_total_semana_adj)
    /\ percentil_deslocamento' = percentil_deslocamento + 5
    /\ UNCHANGED <<retry_pc, rota_1_pra_1>>
    /\ UNCHANGED <<freqVars, cronVars, grpVars, matchVars, routerVars, peakVars, gvpVars, postVars,
                   promoVars, loteVars, umVars>>

\* One pass in 1-to-1 mode whose routes pass the test of l.1031: the loop ends.
RetryOk ==
    /\ retry_pc = "loop"
    /\ rota_1_pra_1
    /\ tentativas < MaxTentativas
    /\ \E cl \in [LivrosAgg -> OperacaoValues] :
           /\ LivrosExcedidos(cl, tempo_total_semana) = {}
           /\ check_livros' = cl
    /\ tentativas' = tentativas + 1
    /\ retry_pc' = "done"
    /\ UNCHANGED <<rota_1_pra_1, tempo_total_semana_adj, percentil_deslocamento>>
    /\ UNCHANGED <<freqVars, cronVars, grpVars, matchVars, routerVars, peakVars, gvpVars, postVars,
                   promoVars, loteVars, umVars>>

\* The single pass of normal mode (l.1036-1037): no test, the loop ends.
RetryNormal ==
    /\ retry_pc = "loop"
    /\ ~rota_1_pra_1
    /\ \E cl \in [LivrosAgg -> OperacaoValues] : check_livros' = cl
    /\ tentativas' = tentativas + 1
    /\ retry_pc' = "done"
    /\ UNCHANGED <<rota_1_pra_1, tempo_total_semana_adj, percentil_deslocamento>>
    /\ UNCHANGED <<freqVars, cronVars, grpVars, matchVars, routerVars, peakVars, gvpVars, postVars,
                   promoVars, loteVars, umVars>>

NextRetry == RetryExceeded \/ RetryOk \/ RetryNormal

SpecRetry == InitRetry /\ [][NextRetry]_vars

GroupNames == {"g1", "g2", "g3"}

SupervisorNames == {"S1", "S2"}

FilialNames == {"F1", "F2"}

\* PARCEIRO of every group (l.670).
ParceiroDoGrupo == [g \in GroupNames |-> IF g = "g3" THEN "p2" ELSE "p1"]

\* Alphabetical order of the names, as sort_values and groupby order them.
OrdemNome == [n \in SupervisorNames \cup FilialNames |-> IF n \in {"S1", "F1"} THEN 1 ELSE 2]

\* supervisores_filial (l.642-647): SUPERVISOR -> FILIAL. to_dict goes through the pairs
\* (SUPERVISOR, FILIAL) sorted by FILIAL: a supervisor of two branches keeps the place of
\* its first pair among the keys and the FILIAL of its last pair as the value. The keys are
\* ordered by that first FILIAL and, in one branch, by first row in grouped_df (PERIODO,
\* SUPERVISOR).
FilialDoSupervisor(g, s) ==
    CHOOSE f \in {r.FILIAL : r \in {q \in g : q.SUPERVISOR = s}} :
        \A r \in g : r.SUPERVISOR = s => OrdemNome[r.FILIAL] <= OrdemNome[f]

SupAntes(g, a, b) ==
    LET PrimeiraFilial(s) ==
            CHOOSE f \in {r.FILIAL : r \in {q \in g : q.SUPERVISOR = s}} :
                \A r \in g : r.SUPERVISOR = s => OrdemNome[f] <= OrdemNome[r.FILIAL]
        PrimeiroPeriodo(s) ==
            LET linhas == {q \in g : q.SUPERVISOR = s /\ q.FILIAL = PrimeiraFilial(s)}
            IN  CHOOSE p \in {r.PERIODO : r \in linhas} : \A r \in linhas : p <= r.PERIODO
        fa == OrdemNome[PrimeiraFilial(a)]  fb == OrdemNome[PrimeiraFilial(b)]
        pa == PrimeiroPeriodo(a)            pb == PrimeiroPeriodo(b)
    IN  \/ fa < fb
        \/ fa = fb /\ pa < pb
        \/ fa = fb /\ pa = pb /\ OrdemNome[a] < OrdemNome[b]

RECURSIVE OrdenaSupervisores(_, _)
OrdenaSupervisores(g, S) ==
    IF S = {} THEN <<>>
    ELSE LET s == CHOOSE a \in S : \A b \in S \ {a} : SupAntes(g, a, b)
         IN  <<s>> \o OrdenaSupervisores(g, S \ {s})

supervisores_filial(g) == OrdenaSupervisores(g, {r.SUPERVISOR : r \in g})

\* lote_df of l.658-660: the groups of one (branch, period, supervisor).
lote_df(g, f, p, s) == {r \in g : r.FILIAL = f /\ r.PERIODO = p /\ r.SUPERVISOR = s}

\* The solutions the routing solver can return for a subproblem: every client on exactly one
\* vehicle (the model has no optional nodes); the routes are numbered 1.. in the order of
\* result_dict (l.730-733), unused vehicles are skipped (l.279-280).
Solucoes(clients) ==
    {rota \in [clients -> 1..2] :
        \A k \in 1..2 : (\E c \in clients : rota[c] = k) =>
            \A j \in 1..k : \E c \in clients : rota[c] = j}

\* l.728-746: the rows of one solved subproblem; every route ends with the arc back to BASE.
livros_df(f, p, s, rota) ==
    {[FILIAL |-> f, PERIODO |-> p, LIVRO |-> <<f, p, rota[c], s>>,
      PARCEIRO |-> ParceiroDoGrupo[c], GROUP |-> c] : c \in DOMAIN rota}
    \cup
    {[FILIAL |-> f, PERIODO |-> p, LIVRO |-> <<f, p, rota[c], s>>,
      PARCEIRO |-> "BASE", GROUP |-> "BASE"] : c \in DOMAIN rota}

\* A line of output and the values it names; {} for a value the line does not carry.
Linha(l, f, p, s) == [linha |-> l, FILIAL |-> f, PERIODO |-> p, SUPERVISOR |-> s]

InitRouter ==
    \* n_p_aux of l.639.
    LET PeriodosValues == {1, 2}
    IN  /\ Idle({"router"})
        /\ router_pc = "loop"
        /\ n_p_aux \in PeriodosValues
        \* The supervisor of a group is a column of the partner's row (l.493): one name may
        \* be written in partners of two branches.
        /\ \E fil \in [GroupNames -> FilialNames],
              sup \in [GroupNames -> SupervisorNames],
              per \in [GroupNames -> 1..n_p_aux] :
               grouped_df = {[FILIAL |-> fil[c], PERIODO |-> per[c], SUPERVISOR |-> sup[c],
                              GROUP |-> c] : c \in GroupNames}
        /\ supervisor = 1
        /\ periodo = 1
        /\ result_df = {}
        /\ saida = <<>>

\* One pass of the inner loop whose solver call returns a solution (l.658-746); after the
\* last period of a supervisor the line of l.748 is printed, and after the last supervisor
\* the arcs to BASE are removed (l.759).
SolveFound ==
    /\ router_pc = "loop"
    /\ LET sups == supervisores_filial(grouped_df)
           s == sups[supervisor]
           f == FilialDoSupervisor(grouped_df, s)
           clients == {r.GROUP : r \in lote_df(grouped_df, f, periodo, s)}
           fimSup == periodo = n_p_aux
           fim == fimSup /\ supervisor = Len(sups)
       IN  \E rota \in Solucoes(clients) :
             LET r == result_df \cup livros_df(f, periodo, s, rota)
             IN  /\ result_df' = IF fim THEN {x \in r : x.PARCEIRO # "BASE"} ELSE r
                 /\ saida' = IF fimSup THEN Append(saida, Linha(748, {f}, {}, {s})) ELSE saida
                 /\ router_pc' = IF fim THEN "done" ELSE "loop"
    /\ supervisor' = IF periodo = n_p_aux THEN supervisor + 1 ELSE supervisor
    /\ periodo' = IF periodo = n_p_aux THEN 1 ELSE periodo + 1
    /\ UNCHANGED <<grouped_df, n_p_aux>>
    /\ UNCHANGED <<freqVars, cronVars, grpVars, matchVars, retryVars, peakVars, gvpVars, postVars,
                   promoVars, loteVars, umVars>>

\* One pass whose solver call returns no solution: the message of l.266 is printed and the
\* extraction of l.273-279 calls solution.Value on None, which raises AttributeError; nothing
\* catches it and the run ends there.
SolveNone ==
    /\ router_pc = "loop"
    /\ LET s == supervisores_filial(grouped_df)[supervisor]
           f == FilialDoSupervisor(grouped_df, s)
       IN  lote_df(grouped_df, f, periodo, s) # {}
    /\ saida' = saida \o <<Linha(266, {}, {}, {}), Linha(279, {}, {}, {})>>
    /\ router_pc' = "AttributeError"
    /\ UNCHANGED <<grouped_df, n_p_aux, supervisor, periodo, result_df>>
    /\ UNCHANGED <<freqVars, cronVars, grpVars, matchVars, retryVars, peakVars, gvpVars, postVars,
                   promoVars, loteVars, umVars>>

NextRouter == SolveFound \/ SolveNone

SpecRouter == InitRouter /\ [][NextRouter]_vars

\* C14: when the solver returns no solution for a (branch, day, supervisor) subproblem, some
\* line of the output names that branch, day and supervisor, and a run that ends normally
\* has every group of every subproblem in its route book.
C14_NoSolutionErrorNamesSubproblem ==
    /\ router_pc = "AttributeError" =>
           LET s == supervisores_filial(grouped_df)[supervisor]
               f == FilialDoSupervisor(grouped_df, s)
           IN  \E i \in 1..Len(saida) :
                   /\ saida[i].linha \in {266, 279}
                   /\ saida[i].FILIAL = {f}
                   /\ saida[i].PERIODO = {periodo}
                   /\ saida[i].SUPERVISOR = {s}
    /\ router_pc = "done" =>
           \A g \in grouped_df : \E r \in result_df : r.GROUP = g.GROUP

-----------------------------------------------------------------------------
(* Weekly Scheduler: infeasibility, fixed weekdays and the peak *)

\* C15: when an asset has frequency 6 on a 6-day week and Saturday is not allowed for it,
\* so that its candidate pattern set is empty, the run ends in an error (naming the asset)
\* and not as a normal run that writes the sheet.
C15_EmptyCandidatesRaiseError ==
    LET visit_patterns == merged_visit_patterns({r.DIAS_POR_SEMANA : r \in freq_df})
    IN  (/\ cron_pc # "input"
         /\ dias_semana = 6
         /\ \E r \in freq_df : /\ r.FREQUENCIA = 6
                               /\ 6 \in DOMAIN visit_patterns
                               /\ group_pattern(r, visit_patterns) = {})
        => /\ cron_pc # "done"
           /\ cron_status # "INFEASIBLE"

\* C16: for every partner with a fixed delivery weekday t* in 0..dias_semana-1 (Monday = 0
\* to Saturday = 5) and at least one asset, the schedule emitted from a solution of the MIP
\* gives some asset of that partner a pattern that contains t*.
C16_FixedWeekdayIsVisited ==
    (cron_pc = "done" /\ cron_status = "OPTIMAL") =>
        \A parc \in DOMAIN dia_entrega :
            LET tstar == IF dia_entrega[parc] = "SABADO" THEN {5}
                         ELSE DiaEntregaIdx(dia_entrega[parc])
            IN  (/\ tstar # {}
                 /\ tstar \subseteq 0..(dias_semana - 1)
                 /\ \E r \in freq_df : r.PARCEIRO = parc)
                => \E c \in cronograma : c.PARCEIRO = parc /\ tstar \subseteq c.DIAS

-----------------------------------------------------------------------------
(* Weekly Scheduler: the load of the days, for branches of many assets.  The objective
   of the MIP depends on an assignment only through the number of visits it puts on
   every day, so a branch is described here by how many assets it has of each frequency
   and a schedule by its load per day. *)

\* Frequencies of the assets of the branch.
FrequenciasPeak == {1, 2}

\* Largest number of assets of frequency 1 and of frequency 2.
MaxPatrF1 == 4
MaxPatrF2 == 6

\* The loads n assets can add to the loads of 'base', each asset taking one pattern of cand
\* (the left side of the constraints of l.264-265).
RECURSIVE CargasPossiveis(_, _, _)
CargasPossiveis(n, cand, base) ==
    IF n = 0 THEN base
    ELSE {[t \in DOMAIN c |-> c[t] + IF t \in dias THEN 1 ELSE 0] :
             c \in CargasPossiveis(n - 1, cand, base), dias \in cand}

\* The loads of all the assignments the MIP admits (one pattern per asset, l.261-262); the
\* candidates of an asset are group_pattern for its frequency, its DIAS_POR_SEMANA being
\* the week's length.
RECURSIVE CargasViaveis(_, _, _)
CargasViaveis(fs, pf, np) ==
    IF fs = {} THEN {[t \in 0..(np - 1) |-> 0]}
    ELSE LET f == CHOOSE g \in fs : TRUE
             cand == group_pattern([PARCEIRO |-> Id("p1"), PATRIMONIO |-> Id("a1"),
                                    FREQUENCIA |-> f, DIAS_POR_SEMANA |-> np],
                                   merged_visit_patterns({np}))
         IN  CargasPossiveis(pf[f], cand, CargasViaveis(fs \ {f}, pf, np))

\* max_w of a load (l.253-265).
Pico(c) == SetMax({c[t] : t \in DOMAIN c})

\* The loads a solver that stops at any feasible assignment could return.
CargasOtimas_Qualquer(viaveis) == viaveis

\* The loads of the assignments of least max_w (l.255-258, l.283-286).
CargasOtimas(viaveis) ==
    LET melhor == CHOOSE m \in {Pico(c) : c \in viaveis} : \A y \in viaveis : m <= Pico(y)
    IN  {c \in viaveis : Pico(c) = melhor}

\* A branch with at least one asset, no fixed weekday, no split asset.
InitPeak ==
    /\ Idle({"peak"})
    /\ peak_pc = "input"
    /\ peak_n_p \in DiasSemanaConfig
    /\ \E n1 \in 0..MaxPatrF1, n2 \in 0..MaxPatrF2 :
           /\ n1 + n2 >= 1
           /\ patr_freq = [f \in FrequenciasPeak |-> IF f = 1 THEN n1 ELSE n2]
    /\ carga = <<>>
    /\ max_w = 0

\* main for the branch: the MIP is built and solved and the schedule extracted.
PeakSolve ==
    /\ peak_pc = "input"
    /\ \E c \in CargasOtimas(CargasViaveis(FrequenciasPeak, patr_freq, peak_n_p)) :
           /\ carga' = c
           /\ max_w' = Pico(c)
    /\ peak_pc' = "done"
    /\ UNCHANGED <<peak_n_p, patr_freq>>
    /\ UNCHANGED <<freqVars, cronVars, grpVars, matchVars, retryVars, routerVars, gvpVars, postVars,
                   promoVars, loteVars, umVars>>

SpecPeak == InitPeak /\ [][PeakSolve]_vars

-----------------------------------------------------------------------------
(* Weekly Scheduler: generate_visit_patterns, statement by statement (l.59-93).
   'current' is a float in the code; for 5 and 6 days no partial sum of n_p/f comes
   close enough to a half for the float's error to change round(current), so it is
   held here as the exact fraction gvp_current / gvp_f. *)

\* sorted() of a list of integers.
RECURSIVE InsereInt(_, _)
InsereInt(seq, a) ==
    IF seq = <<>> THEN <<a>>
    ELSE IF a <= Head(seq) THEN <<a>> \o seq
         ELSE <<Head(seq)>> \o InsereInt(Tail(seq), a)

RECURSIVE OrdenaLista(_)
OrdenaLista(seq) ==
    IF seq = <<>> THEN <<>> ELSE InsereInt(OrdenaLista(Tail(seq)), Head(seq))

\* sorted() of a set of tuples of one length.
RECURSIVE OrdenaTuplas(_)
OrdenaTuplas(S) ==
    IF S = {} THEN <<>>
    ELSE LET u == CHOOSE a \in S : \A b \in S \ {a} : LexMenor(a, b)
         IN  <<u>> \o OrdenaTuplas(S \ {u})

\* The tuple of l.88 with the days left unreduced.
shifted_pattern_SemMod(base, np, s) ==
    OrdenaLista([k \in 1..Len(base) |-> base[k] + s])

\* l.88: tuple(sorted((t + s) % n_p for t in visit_pattern[f])).
shifted_pattern(base, np, s) ==
    OrdenaLista([k \in 1..Len(base) |-> (base[k] + s) % np])

InitGvp ==
    /\ Idle({"gvp"})
    /\ gvp_pc = "base"
    /\ gvp_n_p \in DiasPorSemanaValues
    /\ gvp_f = 1
    /\ gvp_current = 0
    /\ gvp_pattern = <<>>
    /\ gvp_visit_pattern = <<>>
    /\ gvp_s = 0
    /\ gvp_unique = {}
    /\ gvp_result = <<>>

\* l.75-77: one pass of the inner loop.
GvpAppend ==
    /\ gvp_pc = "base"
    /\ Len(gvp_pattern) < gvp_f
    /\ gvp_pattern' = Append(gvp_pattern, RoundHalfEven(gvp_current, gvp_f) % gvp_n_p)
    /\ gvp_current' = gvp_current + gvp_n_p
    /\ UNCHANGED <<gvp_pc, gvp_n_p, gvp_f, gvp_visit_pattern, gvp_s, gvp_unique, gvp_result>>
    /\ UNCHANGED <<freqVars, cronVars, grpVars, matchVars, retryVars, routerVars, peakVars, postVars,
                   promoVars, loteVars, umVars>>

\* l.79 and the next pass of the loop of l.69 (l.71-73), or l.82-85 after the last one.
GvpStoreBase ==
    /\ gvp_pc = "base"
    /\ Len(gvp_pattern) = gvp_f
    /\ gvp_visit_pattern' = gvp_visit_pattern @@ (gvp_f :> OrdenaLista(gvp_pattern))
    /\ IF gvp_f < gvp_n_p
       THEN /\ gvp_f' = gvp_f + 1
            /\ gvp_pattern' = <<>>
            /\ gvp_current' = 0
            /\ UNCHANGED <<gvp_pc, gvp_result>>
       ELSE /\ gvp_pc' = "shift"
            /\ gvp_f' = 1
            /\ gvp_result' = [f \in 1..gvp_n_p |-> <<>>]
            /\ UNCHANGED <<gvp_pattern, gvp_current>>
    /\ UNCHANGED <<gvp_n_p, gvp_s, gvp_unique>>
    /\ UNCHANGED <<freqVars, cronVars, grpVars, matchVars, retryVars, routerVars, peakVars, postVars,
                   promoVars, loteVars, umVars>>

\* l.87-89: one pass of the loop over the shifts.
GvpShift ==
    /\ gvp_pc = "shift"
    /\ gvp_s < gvp_n_p
    /\ gvp_unique' = gvp_unique \cup
                       {shifted_pattern(gvp_visit_pattern[gvp_f], gvp_n_p, gvp_s)}
    /\ gvp_s' = gvp_s + 1
    /\ UNCHANGED <<gvp_pc, gvp_n_p, gvp_f, gvp_current, gvp_pattern, gvp_visit_pattern,
                   gvp_result>>
    /\ UNCHANGED <<freqVars, cronVars, grpVars, matchVars, retryVars, routerVars, peakVars, postVars,
                   promoVars, loteVars, umVars>>

\* l.91 and the next pass of the loop of l.84 (l.85), or the return of l.93.
GvpStoreShift ==
    /\ gvp_pc = "shift"
    /\ gvp_s = gvp_n_p
    /\ gvp_result' = [gvp_result EXCEPT ![gvp_f] = OrdenaTuplas(gvp_unique)]
    /\ IF gvp_f < gvp_n_p
       THEN /\ gvp_f' = gvp_f + 1
            /\ gvp_s' = 0
            /\ gvp_unique' = {}
            /\ UNCHANGED gvp_pc
       ELSE /\ gvp_pc' = "done"
            /\ UNCHANGED <<gvp_f, gvp_s, gvp_unique>>
    /\ UNCHANGED <<gvp_n_p, gvp_current, gvp_pattern, gvp_visit_pattern>>
    /\ UNCHANGED <<freqVars, cronVars, grpVars, matchVars, retryVars, routerVars, peakVars, postVars,
                   promoVars, loteVars, umVars>>

NextGvp == GvpAppend \/ GvpStoreBase \/ GvpShift \/ GvpStoreShift

SpecGvp == InitGvp /\ [][NextGvp]_vars

\* The days of a tuple.
DiasDe(tupla) == {tupla[k] : k \in 1..Len(tupla)}

\* C18: for 5 and 6 days and every f in 1..Dw, generate_visit_patterns(Dw)[f] is exactly the
\* set of the Dw cyclic rotations of the base {round(i*Dw/f) mod Dw : i = 0..f-1}, without
\* duplicates, and every pattern has exactly f distinct weekday indices, all in 0..Dw-1.
C18_CatalogIsRotationsOfBase ==
    gvp_pc = "done" =>
        \A f \in 1..gvp_n_p :
            LET lista == gvp_result[f]
                base == {RoundHalfEven(i * gvp_n_p, f) % gvp_n_p : i \in 0..(f - 1)}
            IN  /\ {DiasDe(lista[k]) : k \in 1..Len(lista)}
                      = {{(t + s) % gvp_n_p : t \in base} : s \in 0..(gvp_n_p - 1)}
                /\ \A j, k \in 1..Len(lista) : j # k => DiasDe(lista[j]) # DiasDe(lista[k])
                /\ \A k \in 1..Len(lista) :
                       /\ Len(lista[k]) = f
                       /\ Cardinality(DiasDe(lista[k])) = f
                       /\ DiasDe(lista[k]) \subseteq 0..(gvp_n_p - 1)
                /\ {DiasDe(lista[k]) : k \in 1..Len(lista)} = generate_visit_patterns(gvp_n_p)[f]

C18_Witness ==
    /\ gvp_pc = "done"
    /\ gvp_n_p = 6
    /\ gvp_result[4] = << <<0, 1, 2, 4>>, <<0, 1, 3, 5>>, <<0, 2, 3, 4>>, <<0, 2, 4, 5>>,
                          <<1, 2, 3, 5>>, <<1, 3, 4, 5>> >>
    /\ Len(gvp_result[2]) = 3

-----------------------------------------------------------------------------
(* Route Builder: times and modality of one route in normal mode
   (solve.py l.703-711, l.728-759, l.863-924) *)

\* Partners of the stops.
PostParceiros == {"p1", "p2"}

\* Largest number of stops of the route.
MaxParadas == 3

\* TEMPO_SERVICO of one asset, seconds.
TempoServicoPatr == 600

\* main's parameter tempo_sabado, hours (l.327).
tempo_sabado == 4

\* PARCEIRO of the k-th vertex of the route; BASE before the first and after the last.
ParceiroEm(r, k) == IF k = 0 \/ k > Len(r) THEN "BASE" ELSE r[k].PARCEIRO

\* lote.distance and lote.time of an arc (l.704-711): dist_dict and time_dict between the
\* points of the two vertices, zero from and to BASE (the groups of one partner are at one
\* point), and on the time the entry time of the destination when the partner changes.
lote_arc(pa, pb) ==
    LET zero == pa = "BASE" \/ pb = "BASE" \/ pa = pb
    IN  [dist |-> IF zero THEN 0 ELSE distancia,
         time |-> (IF zero THEN 0 ELSE duracao)
                    + IF pb # "BASE" /\ pa # pb THEN tempo_entrada[pb] ELSE 0]

\* l.728-746: the rows of the route as the solver returns it, one per arc, the arc back to
\* BASE included.
ArcRows(r) ==
    [k \in 1..(Len(r) + 1) |->
        [VISITA |-> k,
         PARCEIRO |-> ParceiroEm(r, k),
         GROUP |-> IF k <= Len(r) THEN k ELSE 0,
         DIST |-> lote_arc(ParceiroEm(r, k - 1), ParceiroEm(r, k)).dist,
         TEMPO_DESLOCAMENTO |-> lote_arc(ParceiroEm(r, k - 1), ParceiroEm(r, k)).time]]

\* PARCEIRO_ANT != PARCEIRO after the merge on VISITA + 1 (l.869-872, l.888-890): true on
\* the first row, where PARCEIRO_ANT is NaN.
TrocaParceiro(rows, k) == k = 1 \/ rows[k - 1].PARCEIRO # rows[k].PARCEIRO

\* l.876-878: the merge with lotes_df gives one row per asset of the group.
RECURSIVE ExpandePatrimonios(_, _)
ExpandePatrimonios(rows, r) ==
    IF rows = <<>> THEN <<>>
    ELSE LET x == Head(rows)
         IN  [a \in 1..r[x.GROUP].N |->
                 [PATRIMONIO |-> <<x.GROUP, a>>,
                  TEMPO_SERVICO |-> TempoServicoPatr,
                  TEMPO_DE_ENTRADA |-> tempo_entrada[x.PARCEIRO]] @@ x]
             \o ExpandePatrimonios(Tail(rows), r)

\* l.885 without the deduction.
DeduzEntrada_SemDeducao(x) == x

\* l.885: TEMPO_DESLOCAMENTO - TEMPO_DE_ENTRADA*REMOVER_TEMPO_DE_ENTRADA.
DeduzEntrada(x) ==
    [x EXCEPT !.TEMPO_DESLOCAMENTO =
        x.TEMPO_DESLOCAMENTO - x.TEMPO_DE_ENTRADA * B2N(x.REMOVER_TEMPO_DE_ENTRADA)]

\* l.888-894.
Reavalia(rows) ==
    [k \in DOMAIN rows |->
        LET b == B2N(TrocaParceiro(rows, k))
        IN  [rows[k] EXCEPT !.TEMPO_DE_ENTRADA = b * @,
                            !.TEMPO_DESLOCAMENTO = b * @,
                            !.DIST = b * @]]

\* l.899: int(DIST/(5/3.6)), the walking time of DIST metres at 5 km/h.
TempoAPe(dist) == (dist * 18) \div 25

\* The rows of the route after l.759-899: the arcs to BASE dropped (l.759), the change of
\* partner marked (l.869-873), one row per asset (l.876-878), VISITA renumbered (l.881-882),
\* the entry time deducted (l.885), the rows that stay in a partner zeroed (l.888-894) and
\* the walking time (l.899).
ResultRows(r) ==
    LET semBase == SelectSeq(ArcRows(r), LAMBDA x : x.PARCEIRO # "BASE")
        marcadas == [k \in DOMAIN semBase |->
                        [REMOVER_TEMPO_DE_ENTRADA |-> TrocaParceiro(semBase, k)] @@ semBase[k]]
        porPatrimonio == ExpandePatrimonios(marcadas, r)
        expandidas == [k \in DOMAIN porPatrimonio |-> [porPatrimonio[k] EXCEPT !.VISITA = k]]
        deduzidas == [k \in DOMAIN expandidas |-> DeduzEntrada(expandidas[k])]
        reavaliadas == Reavalia(deduzidas)
    IN  [k \in DOMAIN reavaliadas |->
            [TEMPO_DESLOCAMENTO_A_PE |-> TempoAPe(reavaliadas[k].DIST)] @@ reavaliadas[k]]

\* 'sum' of a column (l.902-907).
RECURSIVE SomaColuna(_, _)
SomaColuna(rows, col) ==
    IF rows = <<>> THEN 0 ELSE Head(rows)[col] + SomaColuna(Tail(rows), col)

\* l.919: TEMPO_TOTAL_A_PE*100000 <= MAX_TIME*(1 + error_margin), with error_margin =
\* int(config_sheet['J9'].value) (l.393); the integers are compared after dividing by
\* 100000, which gives the same answer and keeps the products small.
IndexAPe(total_a_pe, maxt) ==
    LET error_margin == config_J9 \div 100
    IN  total_a_pe <= (maxt * (1 + error_margin)) \div 100000

\* l.927-932: HORAS_DIARIAS and ESCALA of a route of total time 'total' and cap 'maxt'.
EscalaDoLivro_MaiorEscala(total, maxt) ==
    LET horas == {escalas[e] : e \in DOMAIN escalas}
    IN  IF total <= SetMax(horas)
        THEN [HORAS_DIARIAS |-> SetMax(horas),
              ESCALA |-> CHOOSE e \in DOMAIN escalas : escalas[e] = SetMax(horas)]
        ELSE [HORAS_DIARIAS |-> maxt, ESCALA |-> "Full-Time"]

EscalaDoLivro(total, maxt) ==
    LET horas == {escalas[e] : e \in DOMAIN escalas}
        h == CHOOSE t \in horas : t >= total /\ \A u \in horas : u >= total => t <= u
    IN  IF total <= SetMax(horas)
        THEN [HORAS_DIARIAS |-> h, ESCALA |-> CHOOSE e \in DOMAIN escalas : escalas[e] = h]
        ELSE [HORAS_DIARIAS |-> maxt, ESCALA |-> "Full-Time"]

\* l.902-933: the route's row of result_livros_df; FTE, the quotient of l.933, is held as
\* its numerator and denominator.
ResultLivro(r, p) ==
    LET rows == ResultRows(r)
        servico == SomaColuna(rows, "TEMPO_SERVICO")
        entrada == SomaColuna(rows, "TEMPO_DE_ENTRADA")
        desloc == SomaColuna(rows, "TEMPO_DESLOCAMENTO")
        a_pe == SomaColuna(rows, "TEMPO_DESLOCAMENTO_A_PE")
        total == servico + entrada + desloc
        total_a_pe == servico + entrada + a_pe
        maxt == IF p = 6 THEN tempo_sabado * 3600 ELSE TempoMaxDia
        index == IndexAPe(total_a_pe, maxt)
        escala == EscalaDoLivro(IF index THEN total_a_pe ELSE total, maxt)
    IN  [PATRIMONIO |-> Cardinality({rows[k].PATRIMONIO : k \in DOMAIN rows}),
         DIST |-> SomaColuna(rows, "DIST"),
         TEMPO_SERVICO |-> servico,
         TEMPO_DE_ENTRADA |-> entrada,
         TEMPO_DESLOCAMENTO |-> (IF index THEN a_pe ELSE desloc) + entrada,
         TEMPO_TOTAL |-> IF index THEN total_a_pe ELSE total,
         MAX_TIME |-> maxt,
         MODAL |-> IF index THEN "A Pe" ELSE "Moto/Carro",
         HORAS_DIARIAS |-> escala.HORAS_DIARIAS,
         ESCALA |-> escala.ESCALA,
         FTE |-> [num |-> escala.HORAS_DIARIAS, den |-> maxt]]

InitPost ==
    \* Stops of a route: a group of one partner with one or two assets.
    LET ParadaValues == [PARCEIRO : PostParceiros, N : {1, 2}]
        EntradaValues == {300, 600}
        DistanciaValues == {500, 20000}
        \* DURATION between two different partners, seconds.
        DuracaoValues == {1800}
        \* Cell J9 in hundredths: 0.10, 10 and 60000.
        J9Values == {10, 1000, 6000000}
        PostPeriodoValues == {1, 6}
        \* Catalogs of scales, seconds: one whose largest scale is below the longest routes.
        EscalasValues == {[e \in {"1h", "2h"} |-> IF e = "1h" THEN 3600 ELSE 7200],
                          [e \in {"2h", "Part-Time", "Integral"} |->
                              IF e = "2h" THEN 7200 ELSE IF e = "Part-Time" THEN 14400
                              ELSE 28800]}
    IN  /\ Idle({"post"})
        /\ post_pc = "routed"
        /\ \E n \in 1..MaxParadas : post_rota \in [1..n -> ParadaValues]
        /\ tempo_entrada \in [PostParceiros -> EntradaValues]
        /\ duracao \in DuracaoValues
        /\ distancia \in DistanciaValues
        /\ livro_periodo \in PostPeriodoValues
        /\ config_J9 \in J9Values
        /\ escalas \in EscalasValues
        /\ result_livro = <<>>

\* main from the solver's route to the route's row (l.728-924, normal mode).
PostProcess ==
    /\ post_pc = "routed"
    /\ result_livro' = ResultLivro(post_rota, livro_periodo)
    /\ post_pc' = "done"
    /\ UNCHANGED <<post_rota, tempo_entrada, duracao, distancia, livro_periodo, config_J9,
                   escalas>>
    /\ UNCHANGED <<freqVars, cronVars, grpVars, matchVars, retryVars, routerVars, peakVars,
                   gvpVars, promoVars, loteVars, umVars>>

SpecPost == InitPost /\ [][PostProcess]_vars

\* Service, entry, driving and walking time of a route, from its stops: the service of
\* every asset, the entry time of every stop at which the route enters a partner (the
\* first, and every one whose partner differs from the stop before), the travel between
\* consecutive stops of different partners, by car and on foot.
ComponentesDaRota(r) ==
    LET entra(k) == k = 1 \/ r[k - 1].PARCEIRO # r[k].PARCEIRO
        viaja(k) == k > 1 /\ r[k - 1].PARCEIRO # r[k].PARCEIRO
        paradas == [k \in 1..Len(r) |->
                       [SERVICO |-> r[k].N * TempoServicoPatr,
                        ENTRADA |-> IF entra(k) THEN tempo_entrada[r[k].PARCEIRO] ELSE 0,
                        VIAGEM |-> IF viaja(k) THEN duracao ELSE 0,
                        A_PE |-> IF viaja(k) THEN TempoAPe(distancia) ELSE 0]]
    IN  [SERVICO |-> SomaColuna(paradas, "SERVICO"),
         ENTRADA |-> SomaColuna(paradas, "ENTRADA"),
         VIAGEM |-> SomaColuna(paradas, "VIAGEM"),
         A_PE |-> SomaColuna(paradas, "A_PE")]

\* C19: in normal mode the total time of a route is the service time of its assets, plus
\* the travel time between consecutive points (zero from and to BASE; on foot when the route
\* is marked walking), plus the partner's entry time once for every time the route enters a
\* partner, the first one included; two partners with one asset each, 600 s of service,
\* 300 s of entry and 1800 s of travel give 3600 s.
C19_RouteTotalTime ==
    post_pc = "done" =>
        /\ result_livro.TEMPO_TOTAL =
               ComponentesDaRota(post_rota).SERVICO + ComponentesDaRota(post_rota).ENTRADA
                 + IF result_livro.MODAL = "A Pe" THEN ComponentesDaRota(post_rota).A_PE
                   ELSE ComponentesDaRota(post_rota).VIAGEM
        /\ (/\ post_rota = <<[PARCEIRO |-> "p1", N |-> 1], [PARCEIRO |-> "p2", N |-> 1]>>
            /\ tempo_entrada = [p \in PostParceiros |-> 300]
            /\ duracao = 1800
            /\ result_livro.MODAL = "Moto/Carro")
           => result_livro.TEMPO_TOTAL = 3600

C19_Witness ==
    /\ post_pc = "done"
    /\ post_rota = <<[PARCEIRO |-> "p1", N |-> 1], [PARCEIRO |-> "p2", N |-> 1]>>
    /\ tempo_entrada = [p \in PostParceiros |-> 300]
    /\ duracao = 1800
    /\ result_livro.MODAL = "Moto/Carro"
    /\ result_livro.TEMPO_TOTAL = 3600

\* C20: a route is marked walking exactly when T_walk * (1 + margin) <= Tmax, T_walk being
\* service + entry + the route's distance at 5 km/h and Tmax the daily cap (the Saturday cap
\* on Saturday), and driving otherwise; a route marked walking has its total time replaced
\* by T_walk.
C20_WalkingIffWithinMargin ==
    post_pc = "done" =>
        LET t_walk == ComponentesDaRota(post_rota).SERVICO
                        + ComponentesDaRota(post_rota).ENTRADA
                        + ComponentesDaRota(post_rota).A_PE
            tmax == IF livro_periodo = 6 THEN tempo_sabado * 3600 ELSE TempoMaxDia
        IN  /\ result_livro.MODAL = "A Pe" <=> t_walk <= (tmax * 100) \div (100 + config_J9)
            /\ result_livro.MODAL = "A Pe" => result_livro.TEMPO_TOTAL = t_walk

\* C21 (as stated): the scale of a route is the smallest scale of the catalog whose hours
\* are at least the route's total time; a route no scale holds is Full-Time with the hours
\* of the branch's daily Tmax; FTE is the assigned hours over the branch's daily Tmax.
C21_ScaleTierBranchTmax ==
    post_pc = "done" =>
        LET cabem == {e \in DOMAIN escalas : escalas[e] >= result_livro.TEMPO_TOTAL}
        IN  /\ cabem # {} =>
                  /\ result_livro.ESCALA \in cabem
                  /\ result_livro.HORAS_DIARIAS = escalas[result_livro.ESCALA]
                  /\ \A e \in cabem : result_livro.HORAS_DIARIAS <= escalas[e]
            /\ cabem = {} =>
                  /\ result_livro.ESCALA = "Full-Time"
                  /\ result_livro.HORAS_DIARIAS = TempoMaxDia
            /\ result_livro.FTE = [num |-> result_livro.HORAS_DIARIAS, den |-> TempoMaxDia]

\* C21 (amended): the same, with the cap of the route's day in the place of the branch's
\* Tmax: the Saturday cap for a route of Saturday, the branch's daily Tmax otherwise; FTE
\* is at most 1 when the assigned hours are not above that cap.
C21_ScaleTierDayCap ==
    post_pc = "done" =>
        LET cabem == {e \in DOMAIN escalas : escalas[e] >= result_livro.TEMPO_TOTAL}
            cap == IF livro_periodo = 6 THEN tempo_sabado * 3600 ELSE TempoMaxDia
        IN  /\ cabem # {} =>
                  /\ result_livro.ESCALA \in cabem
                  /\ result_livro.HORAS_DIARIAS = escalas[result_livro.ESCALA]
                  /\ \A e \in cabem : result_livro.HORAS_DIARIAS <= escalas[e]
            /\ cabem = {} =>
                  /\ result_livro.ESCALA = "Full-Time"
                  /\ result_livro.HORAS_DIARIAS = cap
            /\ result_livro.FTE = [num |-> result_livro.HORAS_DIARIAS, den |-> cap]
            /\ result_livro.HORAS_DIARIAS <= cap => result_livro.FTE.num <= result_livro.FTE.den

\* A Saturday route that takes the middle scale of a catalog of three, which is the cap of
\* its day.
C21_Witness ==
    /\ post_pc = "done"
    /\ livro_periodo = 6
    /\ result_livro.TEMPO_TOTAL > 7200
    /\ result_livro.ESCALA = "Part-Time"
    /\ result_livro.FTE = [num |-> 14400, den |-> 14400]

-----------------------------------------------------------------------------
(* Agent Matcher: the scale of the bundles (solve.py l.1185-1199) *)

\* l.1185-1199: the routes of a bundle with a Full-Time route get ESCALA 'Full-Time',
\* HORAS_DIARIAS 8 and FTE 1; 'horas' is the value written to HORAS_DIARIAS, in tenths.
PromoveBundles(rows, bundles, horas) ==
    [l \in DOMAIN rows |->
        IF \E b \in bundles : l \in b /\ \E k \in b : rows[k].ESCALA = "Full-Time"
        THEN [ESCALA |-> "Full-Time", HORAS_DIARIAS |-> horas, FTE |-> [num |-> 1, den |-> 1]]
        ELSE rows[l]]

\* The routes as l.926-933 and l.1057 leave them: a route that the 4 h scale holds, or a
\* Full-Time route with the branch's limit; the bundles are a partition of the routes.
InitPromo ==
    LET PromoLivros == {"L1", "L2", "L3"}
        TmaxValues == {6 * 3600, 8 * 3600}
        Row(ft, tmax) ==
            IF ft THEN [ESCALA |-> "Full-Time", HORAS_DIARIAS |-> tmax \div 360,
                        FTE |-> [num |-> tmax, den |-> tmax]]
            ELSE [ESCALA |-> "Part-Time", HORAS_DIARIAS |-> 40,
                  FTE |-> [num |-> 4 * 3600, den |-> tmax]]
    IN  /\ Idle({"promo"})
        /\ promo_pc = "alocado"
        /\ promo_tmax \in TmaxValues
        /\ \E ft \in [PromoLivros -> BOOLEAN] :
              promo_livros = [l \in PromoLivros |-> Row(ft[l], promo_tmax)]
        /\ \E agente \in [PromoLivros -> 1..Cardinality(PromoLivros)] :
              abastecedor_dict = {{l \in PromoLivros : agente[l] = n} :
                                     n \in {agente[l] : l \in PromoLivros}}

\* main, l.1185-1199.
PromoveFullTime ==
    /\ promo_pc = "alocado"
    /\ promo_livros' = PromoveBundles(promo_livros, abastecedor_dict, 80)
    /\ promo_pc' = "done"
    /\ UNCHANGED <<promo_tmax, abastecedor_dict>>
    /\ UNCHANGED <<freqVars, cronVars, grpVars, matchVars, retryVars, routerVars, peakVars,
                   gvpVars, postVars, loteVars, umVars>>

SpecPromo == InitPromo /\ [][PromoveFullTime]_vars

\* C22: after the assignment, every route of a bundle that has a Full-Time route has scale
\* Full-Time, daily hours equal to the branch's Tmax and FTE 1, and the routes of the other
\* bundles are unchanged.
C22_FullTimeBundlePromoted ==
    [][promo_pc' = "done" =>
         \A b \in abastecedor_dict : \A l \in b :
             IF \E k \in b : promo_livros[k].ESCALA = "Full-Time"
             THEN /\ promo_livros'[l].ESCALA = "Full-Time"
                  /\ promo_livros'[l].HORAS_DIARIAS * 360 = promo_tmax
                  /\ promo_livros'[l].FTE.num = promo_livros'[l].FTE.den
             ELSE promo_livros'[l] = promo_livros[l]]_vars

-----------------------------------------------------------------------------
(* Route Builder: the time windows, one call of Lote.solve and the routes emitted
   (solve.py l.467-491, l.86-304, l.663-759, l.761-894) *)

\* Largest number of groups of the subproblem.
MaxGrupos == 3

\* INICIO and FIM of every partner (l.467-491): HH:MM in seconds, 24 h added to a closing
\* time before the opening time, the smallest opening time subtracted, a missing opening
\* time at the origin and a missing closing time at max(largest FIM, 'Tempo Max'). A cell
\* is the set of its value, empty when the cell is empty.
JanelasNormalizadas(parc) ==
    LET seg(c) == LET hm == CHOOSE x \in c : TRUE IN hm.h * 3600 + hm.m * 60
        com == {p \in DOMAIN parc : parc[p].INICIO_FUNCIONAMENTO # {}}
        ini == [p \in com |-> seg(parc[p].INICIO_FUNCIONAMENTO)]
        fim == [p \in com |->
                   IF ini[p] > seg(parc[p].FIM_FUNCIONAMENTO)
                   THEN seg(parc[p].FIM_FUNCIONAMENTO) + 24 * 3600
                   ELSE seg(parc[p].FIM_FUNCIONAMENTO)]
        min_inicio == CHOOSE v \in {ini[p] : p \in com} : \A p \in com : v <= ini[p]
        max_fim == SetMax({fim[p] - min_inicio : p \in com})
    IN  [p \in DOMAIN parc |->
            IF p \in com THEN [INICIO |-> ini[p] - min_inicio, FIM |-> fim[p] - min_inicio]
            ELSE [INICIO |-> 0, FIM |-> Max2(max_fim, TempoMaxDia)]]

\* lote.max_time (l.690-693).
LoteMaxTime(per) == IF per = 6 THEN tempo_sabado * 3600 ELSE TempoMaxDia

\* data['time_matrix'][i][j] (l.125-131) over lote.time (l.703-711): the service time of
\* the origin, the DURATION between the two points, and the entry time of the destination
\* when the partner changes; 0 stands for BASE.
LoteTransito(i, j) ==
    LET pi == IF i = 0 THEN "BASE" ELSE lote_grupos[i].PARCEIRO
        pj == IF j = 0 THEN "BASE" ELSE lote_grupos[j].PARCEIRO
    IN  (IF i = 0 THEN 0 ELSE lote_grupos[i].TEMPO_SERVICO)
          + (IF i = 0 \/ j = 0 \/ pi = pj THEN 0 ELSE lote_duration)
          + (IF j # 0 /\ pi # pj THEN lote_parceiros[pj].TEMPO_DE_ENTRADA ELSE 0)

\* The routes over the groups of 'nos', each with the values of the Time dimension
\* (l.210-243): the vehicle leaves BASE at 0, the value at a stop is the value at the stop
\* before plus the transit plus a wait, it lies in the stop's window [e, l] (l.104-107,
\* l.234-239) and, like the value at the end of the route, it is at most max_time. The
\* waits taken are none, the wait for the window to open, and half an hour more.
RotasViaveis_SemJanela(nos, jan, maxt) ==
    LET RECURSIVE Perms(_)
        Perms(S) == IF S = {} THEN {<<>>}
                    ELSE UNION {{<<x>> \o q : q \in Perms(S \ {x})} : x \in S}
        RECURSIVE Chegadas(_, _, _)
        Chegadas(ordem, k, antes) ==
            IF k > Len(ordem)
            THEN IF antes + LoteTransito(ordem[Len(ordem)], 0) <= maxt THEN {<<>>} ELSE {}
            ELSE LET a == antes + (IF k = 1 THEN LoteTransito(0, ordem[1])
                                   ELSE LoteTransito(ordem[k - 1], ordem[k]))
                 IN  UNION {{<<[GROUP |-> ordem[k], CHEGADA |-> t]>> \o q :
                                q \in Chegadas(ordem, k + 1, t)} :
                            t \in {u \in {a, a + 1800} : u <= maxt}}
    IN  UNION {Chegadas(ordem, 1, 0) : ordem \in Perms(nos)}

RotasViaveis(nos, jan, maxt) ==
    LET RECURSIVE Perms(_)
        Perms(S) == IF S = {} THEN {<<>>}
                    ELSE UNION {{<<x>> \o q : q \in Perms(S \ {x})} : x \in S}
        \* tw_start and tw_end of BASE are 0 and 48 h (l.675-676)
        e(i) == Max2(jan[lote_grupos[i].PARCEIRO].INICIO - 0, 0)
        l(i) == jan[lote_grupos[i].PARCEIRO].FIM - 0
        RECURSIVE Chegadas(_, _, _)
        Chegadas(ordem, k, antes) ==
            IF k > Len(ordem)
            THEN IF antes + LoteTransito(ordem[Len(ordem)], 0) <= maxt THEN {<<>>} ELSE {}
            ELSE LET a == antes + (IF k = 1 THEN LoteTransito(0, ordem[1])
                                   ELSE LoteTransito(ordem[k - 1], ordem[k]))
                     cedo == Max2(a, e(ordem[k]))
                 IN  UNION {{<<[GROUP |-> ordem[k], CHEGADA |-> t]>> \o q :
                                q \in Chegadas(ordem, k + 1, t)} :
                            t \in {u \in {cedo, cedo + 1800} : u <= l(ordem[k]) /\ u <= maxt}}
    IN  UNION {Chegadas(ordem, 1, 0) : ordem \in Perms(nos)}

\* The solutions routing.SolveWithParameters may return (l.251): every client in one
\* route of one vehicle. The Distance dimension (l.218-231) restricts them further.
RECURSIVE LoteSolucoes(_, _, _)
LoteSolucoes(nos, jan, maxt) ==
    IF nos = {} THEN {{}}
    ELSE LET c == CHOOSE x \in nos : \A y \in nos : x <= y
         IN  UNION {{{r} \cup resto : r \in RotasViaveis(b \cup {c}, jan, maxt),
                                      resto \in LoteSolucoes(nos \ (b \cup {c}), jan, maxt)} :
                    b \in SUBSET (nos \ {c})}

\* The routes of result_df: in normal mode the routes of the solution (l.728-759); in
\* 1-to-1 mode every route of the solution divided by the scheduled day of its assets
\* (l.761-860). TEMPO_TOTAL is the total of the route's rows (l.910): in normal mode
\* (l.863-894) the service, the travel on every change of partner and the entry time on
\* every entering of a partner; in 1-to-1 mode (l.836-860) the DURATION between consecutive
\* points and the entry time once for every partner of the route.
LivrosEmitidos(sol, um_pra_um, per) ==
    LET grupos(r) == [k \in 1..Len(r) |-> r[k].GROUP]
        doDia(r, d) == SelectSeq(grupos(r), LAMBDA i : lote_grupos[i].DIA = d)
        tempo(paradas) ==
            LET parc(k) == lote_grupos[paradas[k]].PARCEIRO
                muda(k) == k > 1 /\ parc(k - 1) # parc(k)
                entra(k) == IF um_pra_um THEN \A m \in 1..(k - 1) : parc(m) # parc(k)
                            ELSE k = 1 \/ muda(k)
                linhas == [k \in 1..Len(paradas) |->
                             [T |-> lote_grupos[paradas[k]].TEMPO_SERVICO
                                      + (IF muda(k) THEN lote_duration ELSE 0)
                                      + (IF entra(k)
                                         THEN lote_parceiros[parc(k)].TEMPO_DE_ENTRADA
                                         ELSE 0)]]
            IN  SomaColuna(linhas, "T")
    IN  IF um_pra_um
        THEN {[PERIODO |-> d, PARADAS |-> doDia(r, d), TEMPO_TOTAL |-> tempo(doDia(r, d))] :
                 <<r, d>> \in {rd \in sol \X {lote_grupos[i].DIA : i \in DOMAIN lote_grupos} :
                                   doDia(rd[1], rd[2]) # <<>>}}
        ELSE {[PERIODO |-> per, PARADAS |-> grupos(r), TEMPO_TOTAL |-> tempo(grupos(r))] :
                 r \in sol}

\* The subproblem of one supervisor and period. In normal mode its groups are those the
\* schedule puts on the period; in 1-to-1 mode the period is 1 and the groups are all the
\* assets, whatever their scheduled day (l.500-505). One partner at least has opening hours.
InitLote ==
    LET LoteParceiros == {"p1", "p2"}
        NaoInformado == [INICIO_FUNCIONAMENTO |-> {}, FIM_FUNCIONAMENTO |-> {}]
        Horario(hi, mi, hf, mf) == [INICIO_FUNCIONAMENTO |-> {[h |-> hi, m |-> mi]},
                                    FIM_FUNCIONAMENTO |-> {[h |-> hf, m |-> mf]}]
        HorariosP1 == {NaoInformado, Horario(20, 0, 23, 30), Horario(23, 0, 2, 0)}
        HorariosP2 == {NaoInformado, Horario(20, 0, 23, 30), Horario(21, 30, 22, 30)}
    IN  /\ Idle({"lote"})
        /\ lote_pc = "montado"
        /\ lote_modo_1p1 \in BOOLEAN
        /\ lote_periodo \in (IF lote_modo_1p1 THEN {1} ELSE {1, 6})
        /\ \E h1 \in HorariosP1, h2 \in HorariosP2 :
              /\ h1 # NaoInformado \/ h2 # NaoInformado
              /\ lote_parceiros = [p \in LoteParceiros |->
                                      [TEMPO_DE_ENTRADA |-> 600] @@ (IF p = "p1" THEN h1 ELSE h2)]
        /\ \E n \in 1..MaxGrupos :
              \E pg \in [1..n -> LoteParceiros], dg \in [1..n -> {1, 6}] :
                 /\ ~lote_modo_1p1 => \A k \in 1..n : dg[k] = lote_periodo
                 /\ lote_grupos = [k \in 1..n |->
                                      [PARCEIRO |-> pg[k], TEMPO_SERVICO |-> 7200, DIA |-> dg[k]]]
        /\ lote_duration = 1800
        /\ lote_result = {}
        /\ lote_emitidos = {}

\* lote.solve returns a solution and main turns it into routes (l.723-759, l.761-894).
LoteSolveFound ==
    /\ lote_pc = "montado"
    /\ \E sol \in LoteSolucoes(DOMAIN lote_grupos, JanelasNormalizadas(lote_parceiros),
                                LoteMaxTime(lote_periodo)) :
          /\ lote_result' = sol
          /\ lote_emitidos' = LivrosEmitidos(sol, lote_modo_1p1, lote_periodo)
    /\ lote_pc' = "done"
    /\ UNCHANGED <<lote_modo_1p1, lote_periodo, lote_parceiros, lote_grupos, lote_duration>>
    /\ UNCHANGED <<freqVars, cronVars, grpVars, matchVars, retryVars, routerVars, peakVars,
                   gvpVars, postVars, promoVars, umVars>>

\* The search finds no solution: solution is None and l.279 raises.
LoteSolveNone ==
    /\ lote_pc = "montado"
    /\ LoteSolucoes(DOMAIN lote_grupos, JanelasNormalizadas(lote_parceiros),
                    LoteMaxTime(lote_periodo)) = {}
    /\ lote_pc' = "AttributeError"
    /\ UNCHANGED <<lote_modo_1p1, lote_periodo, lote_parceiros, lote_grupos, lote_duration,
                   lote_result, lote_emitidos>>
    /\ UNCHANGED <<freqVars, cronVars, grpVars, matchVars, retryVars, routerVars, peakVars,
                   gvpVars, postVars, promoVars, umVars>>

SpecLote == InitLote /\ [][LoteSolveFound \/ LoteSolveNone]_vars

C24_ArrivalInsideWindow ==
    lote_pc = "done" =>
        LET informados == {p \in DOMAIN lote_parceiros :
                              lote_parceiros[p].INICIO_FUNCIONAMENTO # {}}
            hora(c) == CHOOSE x \in c : TRUE
            abre(p) == hora(lote_parceiros[p].INICIO_FUNCIONAMENTO).h * 3600
                         + hora(lote_parceiros[p].INICIO_FUNCIONAMENTO).m * 60
            fecha0(p) == hora(lote_parceiros[p].FIM_FUNCIONAMENTO).h * 3600
                           + hora(lote_parceiros[p].FIM_FUNCIONAMENTO).m * 60
            fecha(p) == IF fecha0(p) < abre(p) THEN fecha0(p) + 86400 ELSE fecha0(p)
            origem == CHOOSE o \in {abre(p) : p \in informados} :
                          \A p \in informados : o <= abre(p)
        IN  \A r \in lote_result : \A k \in 1..Len(r) :
                LET p == lote_grupos[r[k].GROUP].PARCEIRO
                IN  p \in informados =>
                        /\ abre(p) - origem <= r[k].CHEGADA
                        /\ r[k].CHEGADA <= fecha(p) - origem

\* A route that goes from a partner open from 20:00 to a partner open from 23:00 to 02:00
\* and starts the second visit when that partner opens, three hours after the origin.
C24_Witness ==
    /\ lote_pc = "done"
    /\ \E r \in lote_result :
          /\ Len(r) = 2
          /\ lote_grupos[r[1].GROUP].PARCEIRO = "p2"
          /\ lote_grupos[r[2].GROUP].PARCEIRO = "p1"
          /\ lote_parceiros["p1"].FIM_FUNCIONAMENTO = {[h |-> 2, m |-> 0]}
          /\ lote_parceiros["p2"].INICIO_FUNCIONAMENTO = {[h |-> 20, m |-> 0]}
          /\ r[2].CHEGADA = 3 * 3600

\* C25: once the allocation has run, every route an agent owns besides its base route is
\* of another weekday than the base route, and its centre is at most Dmax/1000 km (the
\* branch's distance cap in km) from the centre of the base route.
C25_CandidatesWithinDistanceCap ==
    match_pc = "done" =>
        \A a \in x_aloc :
            LET base == CHOOSE r \in result_livros_df : OrdemLivro(r.LIVRO) = a[1] + 1
                rota_j == LivroRow(a[2])
            IN  rota_j # base =>
                    /\ rota_j.PERIODO # base.PERIODO
                    /\ Dist([I |-> base, J |-> rota_j]) <= DistMaxKm

\* C26: in normal mode, once the allocation has run every route of the supervisor is mapped
\* to exactly one agent, the routes that have no candidate pair included.
C26_EveryRouteHasAnAgent ==
    match_pc = "done" =>
        \A r \in result_livros_df :
            /\ r.LIVRO \in DOMAIN alocation_dict
            /\ Cardinality({a \in x_aloc : a[2] = r.LIVRO}) = 1

-----------------------------------------------------------------------------
(* Agent Matcher in 1-to-1 mode: the agent of every daily sub-route
   (solve.py l.730-733, l.811-825, l.1170-1183) *)

\* Largest number of aggregate routes of one supervisor.
MaxLivrosAgg == 2

\* The label f'{filial} - P{periodo}L{livro} - {supervisor}' of l.731, held as its parts.
LivroLabel(filial, per, num, sup) ==
    [FILIAL |-> filial, P |-> per, L |-> num, SUPERVISOR |-> sup]

\* l.1172: 'ABASTECEDOR ' and the two groups of (\w+) - .*L(\d+) found in LIVRO_AGG: the
\* word before the first ' - ' and the digits after the last L that digits follow; branch
\* and supervisor are single words without such an L.
AbastecedorDe(livro_agg) == <<"ABASTECEDOR", livro_agg.FILIAL, livro_agg.L>>

\* l.811-825: the sub-route of day d of an aggregate route takes its label with P{d} and
\* with the dense rank of its number among the routes that have visits on day d.
DeparaLivro(aggs) ==
    LET noDia(d) == {g \in aggs : d \in g.DIAS}
        posto(g, d) == Cardinality({h.N : h \in {q \in noDia(d) : q.N <= g.N}})
        pares == {<<g, d>> \in aggs \X UNION {g.DIAS : g \in aggs} : d \in g.DIAS}
        adj(gd) == LivroLabel(gd[1].FILIAL, gd[2], posto(gd[1], gd[2]), gd[1].SUPERVISOR)
    IN  [livro \in {adj(gd) : gd \in pares} |->
            LET gd == CHOOSE x \in pares : adj(x) = livro
            IN  LivroLabel(gd[1].FILIAL, 1, gd[1].N, gd[1].SUPERVISOR)]

\* The aggregate routes of two supervisors, of one branch or of two: every supervisor has
\* routes 1..k (l.730-733), every route has visits on one day at least.
InitUm ==
    LET FilialDe == {[s \in {"JOAO", "MARIA"} |-> "SP"],
                     [s \in {"JOAO", "MARIA"} |-> IF s = "JOAO" THEN "SP" ELSE "RJ"]}
        DiasValues == {{1}, {2}, {1, 2}}
    IN  /\ Idle({"um"})
        /\ um_pc = "roteado"
        /\ \E fil \in FilialDe, k \in [{"JOAO", "MARIA"} -> 1..MaxLivrosAgg] :
              \E dias \in [{sn \in {"JOAO", "MARIA"} \X (1..MaxLivrosAgg) : sn[2] <= k[sn[1]]}
                              -> DiasValues] :
                 livros_agg = {[FILIAL |-> fil[sn[1]], SUPERVISOR |-> sn[1], N |-> sn[2],
                                DIAS |-> dias[sn]] : sn \in DOMAIN dias}
        /\ depara_livro = <<>>
        /\ um_alocation = <<>>

\* main in 1-to-1 mode, l.761-860 and l.1170-1183.
UmPraUm ==
    /\ um_pc = "roteado"
    /\ depara_livro' = DeparaLivro(livros_agg)
    /\ um_alocation' = [livro \in DOMAIN DeparaLivro(livros_agg) |->
                           AbastecedorDe(DeparaLivro(livros_agg)[livro])]
    /\ um_pc' = "done"
    /\ UNCHANGED livros_agg
    /\ UNCHANGED <<freqVars, cronVars, grpVars, matchVars, retryVars, routerVars, peakVars,
                   gvpVars, postVars, promoVars, loteVars>>

SpecUm == InitUm /\ [][UmPraUm]_vars

C29_EveryVisitRoutedOnce ==
    router_pc = "done" =>
        /\ \A g \in grouped_df :
              /\ Cardinality({r \in result_df : r.GROUP = g.GROUP}) = 1
              /\ \A r \in result_df :
                    r.GROUP = g.GROUP =>
                        /\ r.FILIAL = g.FILIAL
                        /\ r.PERIODO = g.PERIODO
                        /\ r.LIVRO[4] = g.SUPERVISOR
        /\ \A r \in result_df : r.PARCEIRO # "BASE" /\ r.GROUP # "BASE"

-----------------------------------------------------------------------------
(* Frequency Engine: referential integrity after repasses *)

\* C30: after repasses has rewritten the tables, every asset of the sheet 'patrimonios'
\* references a partner that has a row in the partner table and in the point-id mapping
\* (also an asset that was not split but shares its partner with a split one), every SKU
\* line of the visits table belongs to an asset of the sheet (also the lines of a split
\* asset that stayed under the threshold), and the identifier of a split asset is in no
\* table any more.
C30_ReferentialIntegrityAfterRepasses ==
    (freq_pc = "done" /\ freq_params.visitas_duplas) =>
        /\ \A p \in patrimonios_out :
              /\ p.PARCEIRO \in {q.PARCEIRO : q \in parceiros_out}
              /\ p.PARCEIRO \in {d.PARCEIRO : d \in depara_out}
        /\ \A v \in visitas_rep :
              \E p \in patrimonios_out :
                  p.PATRIMONIO = v.PATRIMONIO /\ p.PARCEIRO = v.PARCEIRO
        /\ \A a \in Divididos :
              /\ a.PATRIMONIO \notin {p.PATRIMONIO : p \in patrimonios_out}
              /\ a.PATRIMONIO \notin {v.PATRIMONIO : v \in visitas_rep}

====
